---- MODULE Spec2Model ----
(***************************************************************************)
(* Telehealth front end: the video call session hook (useVideoCall) with  *)
(* its media controls, the speech capture hook (useSpeechRecognition), the *)
(* caption panel (TranscriptionPanel), the track attachment, the avatar    *)
(* monitors, the participant names, the transcription toggle and the leave *)
(* button of VideoCall, the video page that joins a visit, and the route   *)
(* middleware, as state machines.                                          *)
(*                                                                         *)
(* React is modelled as it schedules a function component: useState holds  *)
(* a store that setState writes at once; the callbacks and effects of the  *)
(* component read the values of the LAST RENDER (their closures), so every *)
(* state variable comes twice, as the store and as the rendered snapshot   *)
(* (prefix r).  A render copies the store into the snapshot and runs the   *)
(* cleanups and the bodies of the effects whose dependencies changed.      *)
(* Refs (useRef) are plain mutable cells read and written at once.         *)
(***************************************************************************)
EXTENDS Integers, Sequences, FiniteSets, TLC

(* ------------------------------ bounds -------------------------------- *)
MaxSessions == 2
MaxTicks == 2
CountCap == 2

(* ------------------------- program constants -------------------------- *)
CooldownMs == 1000
CleanupResetMs == 100

Epoch == CooldownMs

(* The clock advances in steps of half a cooldown. *)
TickMs == CooldownMs \div 2
MaxNow == Epoch + MaxTicks * TickMs

Null == "null"
NoRoom == 0
NoTimer == -1
TheRoomName == "visit-1"
Tokens == {"", "jwtA"}
RoomNames == {"", TheRoomName}
InstanceIds == {"k1", "k2"}
RemoteIds == {"p1"}
(* The participants that join a session after it was connected. *)
JoinerIds == {"p1", "p2"}
TrackKinds == {"audio", "video"}
Sessions == 1..MaxSessions

VARIABLES
  (* props of useVideoCall *)
  token, roomName,
  (* useState store *)
  room, isConnecting, isConnected, participants,
  (* values of the last render, read by closures *)
  rRoom, rIsConnecting, cRoom,
  (* refs *)
  isConnectingRef, connectionInstanceRef, lastConnectionAttemptRef,
  isCleaningUpRef, isDisconnectingRef,
  (* component life cycle, clock, pending setTimeout of the listener *)
  mounted, now, cleanupTimer,
  (* transport: one entry per connect() call made; roster is the list of   *)
  (* remote participants of the session, in the order they were reported   *)
  sess, published, liveTracks, roster,
  (* history of the run, read only by the properties *)
  lastConnectAt, connectsInWindow, abandoned, dropped,
  onDisconnectCalls, disconnectCalls, closures, trackStops, lastCall

callVars == <<token, roomName, room, isConnecting, isConnected, participants,
              rRoom, rIsConnecting, cRoom, isConnectingRef,
              connectionInstanceRef, lastConnectionAttemptRef, isCleaningUpRef,
              isDisconnectingRef, mounted, now, cleanupTimer, sess, published,
              liveTracks, roster, lastConnectAt, connectsInWindow, abandoned, dropped,
              onDisconnectCalls, disconnectCalls, closures, trackStops,
              lastCall>>

(* The state as one record, so that the statements of a handler compose.   *)
World ==
  [token |-> token, roomName |-> roomName, room |-> room,
   isConnecting |-> isConnecting, isConnected |-> isConnected,
   participants |-> participants, rRoom |-> rRoom,
   rIsConnecting |-> rIsConnecting, cRoom |-> cRoom,
   isConnectingRef |-> isConnectingRef,
   connectionInstanceRef |-> connectionInstanceRef,
   lastConnectionAttemptRef |-> lastConnectionAttemptRef,
   isCleaningUpRef |-> isCleaningUpRef,
   isDisconnectingRef |-> isDisconnectingRef, mounted |-> mounted,
   now |-> now, cleanupTimer |-> cleanupTimer, sess |-> sess,
   published |-> published, liveTracks |-> liveTracks, roster |-> roster,
   lastConnectAt |-> lastConnectAt, connectsInWindow |-> connectsInWindow,
   abandoned |-> abandoned, dropped |-> dropped,
   onDisconnectCalls |-> onDisconnectCalls,
   disconnectCalls |-> disconnectCalls, closures |-> closures,
   trackStops |-> trackStops, lastCall |-> lastCall]

Commit(w) ==
  /\ token' = w.token /\ roomName' = w.roomName /\ room' = w.room
  /\ isConnecting' = w.isConnecting /\ isConnected' = w.isConnected
  /\ participants' = w.participants
  /\ rRoom' = w.rRoom /\ rIsConnecting' = w.rIsConnecting /\ cRoom' = w.cRoom
  /\ isConnectingRef' = w.isConnectingRef
  /\ connectionInstanceRef' = w.connectionInstanceRef
  /\ lastConnectionAttemptRef' = w.lastConnectionAttemptRef
  /\ isCleaningUpRef' = w.isCleaningUpRef
  /\ isDisconnectingRef' = w.isDisconnectingRef
  /\ mounted' = w.mounted /\ now' = w.now /\ cleanupTimer' = w.cleanupTimer
  /\ sess' = w.sess /\ published' = w.published /\ liveTracks' = w.liveTracks
  /\ roster' = w.roster
  /\ lastConnectAt' = w.lastConnectAt
  /\ connectsInWindow' = w.connectsInWindow /\ abandoned' = w.abandoned
  /\ dropped' = w.dropped
  /\ onDisconnectCalls' = w.onDisconnectCalls
  /\ disconnectCalls' = w.disconnectCalls /\ closures' = w.closures
  /\ trackStops' = w.trackStops /\ lastCall' = w.lastCall

Bump(n) == IF n < CountCap THEN n + 1 ELSE n

Truthy(s) == s # Null /\ s # ""

(* setState of an unmounted component is dropped by React. *)
SetState(w, w2) == IF w.mounted = "mounted" \/ w.mounted = "mounting" THEN w2 ELSE w

Pending(w) == {s \in Sessions : w.sess[s] = "pending"}
Used(w) == {s \in Sessions : w.sess[s] # "none"}

(* ---------------------------- transport ------------------------------- *)

(* The 'disconnected' listener that connectToRoom registers on the room.   *)
OnDisconnected(w, s) ==
  IF w.isCleaningUpRef THEN w
  ELSE LET w1 == SetState(w, [w EXCEPT !.room = NoRoom, !.isConnected = FALSE,
                                        !.participants = <<>>])
       IN [w1 EXCEPT !.isCleaningUpRef = TRUE,
                     !.isConnectingRef = FALSE,
                     !.connectionInstanceRef = Null,
                     !.cleanupTimer = w.now + CleanupResetMs,
                     !.onDisconnectCalls[s] = Bump(@)]

(* room.disconnect(): closes a connected session, whose 'disconnected'     *)
(* event then runs the listener before the call returns; a session that is *)
(* closed already stays as it is.                                          *)
RoomDisconnect(w, s) ==
  IF w.sess[s] = "connected"
  THEN OnDisconnected([w EXCEPT !.sess[s] = "disconnected",
                                !.roster[s] = <<>>,
                                !.closures[s] = Bump(@)], s)
  ELSE w

StopLocalTracks_NoUnpublish(w, s) ==
  IF w.published[s] = {} THEN w
  ELSE [w EXCEPT !.liveTracks[s] = @ \ w.published[s], !.trackStops[s] = Bump(@)]

(* The forEach over localParticipant.tracks of disconnect(): every         *)
(* publication's track is stopped, detached and unpublished, which takes   *)
(* the publication out of localParticipant.tracks.                         *)
StopLocalTracks(w, s) ==
  IF w.published[s] = {} THEN w
  ELSE [w EXCEPT !.liveTracks[s] = @ \ w.published[s], !.published[s] = {},
                 !.trackStops[s] = Bump(@)]

(* ---------------------------- connectToRoom --------------------------- *)

(* connectToRoom without the cooldown test of lines 68-72. *)
ConnectOutcome_NoCooldown(w, instanceId, clRoom) ==
  IF Truthy(w.connectionInstanceRef) /\ w.connectionInstanceRef # instanceId
    THEN "rejected_instance"
  ELSE IF w.token = "" \/ w.roomName = "" THEN "rejected_params"
  ELSE IF w.isConnectingRef THEN "rejected_connecting"
  ELSE IF clRoom # NoRoom THEN "rejected_room"
  ELSE "accepted"

ConnectOutcome(w, instanceId, clRoom) ==
  IF Truthy(w.connectionInstanceRef) /\ w.connectionInstanceRef # instanceId
    THEN "rejected_instance"
  ELSE IF w.token = "" \/ w.roomName = "" THEN "rejected_params"
  ELSE IF w.isConnectingRef THEN "rejected_connecting"
  ELSE IF clRoom # NoRoom THEN "rejected_room"
  ELSE IF w.now - w.lastConnectionAttemptRef < CooldownMs THEN "rejected_cooldown"
  ELSE "accepted"

(* Math.random().toString(36).substring(7): a fresh identifier, taken to   *)
(* differ from the one stored (only equality with it is ever read).        *)
DrawIds == {CHOOSE id \in InstanceIds : id # connectionInstanceRef}

FreeSession(w) == CHOOSE s \in Sessions \ Used(w) : \A u \in Sessions \ Used(w) : s <= u

(* connectToRoom up to its await of connect(); clRoom is the room of the   *)
(* render that created the callback (deps: token, roomName, onDisconnect). *)
ConnectToRoom(w, instanceId, clRoom) ==
  LET o == ConnectOutcome(w, instanceId, clRoom)
      w1 == IF o = "rejected_instance" THEN w
            ELSE [w EXCEPT !.connectionInstanceRef = instanceId]
  IN IF o # "accepted"
     THEN [w1 EXCEPT !.lastCall = IF o = "rejected_cooldown" THEN o ELSE @]
     ELSE IF Used(w) = Sessions THEN [w1 EXCEPT !.lastCall = "overflow"]
     ELSE LET s == FreeSession(w)
              w2 == SetState(w1, [w1 EXCEPT !.isConnecting = TRUE])
          IN [w2 EXCEPT !.lastConnectionAttemptRef = w.now,
                        !.isConnectingRef = TRUE,
                        !.sess[s] = "pending",
                        !.connectsInWindow =
                           IF w.lastConnectAt # 0 /\ w.now - w.lastConnectAt < CooldownMs
                           THEN Bump(@) ELSE 1,
                        !.lastConnectAt = w.now]

(* The continuation of connectToRoom after connect() resolved, and its     *)
(* finally block.                                                          *)
ConnectResolved(w, s, initial) ==
  LET w1 == [w EXCEPT !.sess[s] = "connected", !.published[s] = TrackKinds,
                      !.liveTracks[s] = TrackKinds, !.roster[s] = initial]
      w2 == SetState(w1, [w1 EXCEPT !.room = s, !.isConnected = TRUE,
                                    !.participants = initial])
      w3 == [w2 EXCEPT !.isConnectingRef = FALSE]
  IN SetState(w3, [w3 EXCEPT !.isConnecting = FALSE])

(* The catch and finally blocks of connectToRoom after connect() rejected. *)
ConnectRejected(w, s) ==
  LET w1 == [w EXCEPT !.sess[s] = "failed"]
      w3 == [w1 EXCEPT !.isConnectingRef = FALSE]
  IN SetState(w3, [w3 EXCEPT !.isConnecting = FALSE])

(* --------------------------- participants ----------------------------- *)

Without(list, p) == SelectSeq(list, LAMBDA q : q # p)

Members(list) == {list[i] : i \in 1..Len(list)}

(* The 'participantConnected' listener of session s. *)
OnParticipantConnected(w, s, p) ==
  SetState([w EXCEPT !.roster[s] = Append(@, p)],
           [w EXCEPT !.roster[s] = Append(@, p),
                     !.participants = Append(@, p)])

(* The 'participantDisconnected' listener of session s. *)
OnParticipantDisconnected(w, s, p) ==
  SetState([w EXCEPT !.roster[s] = Without(@, p)],
           [w EXCEPT !.roster[s] = Without(@, p),
                     !.participants = Without(@, p)])

(* ------------------------------ disconnect ---------------------------- *)

Disconnect(w) ==
  IF w.rRoom = NoRoom THEN w
  ELSE LET s == w.rRoom
           w1 == [w EXCEPT !.isDisconnectingRef = TRUE,
                           !.disconnectCalls[s] = Bump(@)]
           w2 == RoomDisconnect(StopLocalTracks(w1, s), s)
           w3 == SetState(w2, [w2 EXCEPT !.room = NoRoom, !.isConnected = FALSE,
                                         !.participants = <<>>])
       IN [w3 EXCEPT !.isConnectingRef = FALSE, !.connectionInstanceRef = Null]

(* disconnect() when a statement of the forEach throws for the publication *)
(* of kind t (in stop, at = "stop", or in unpublishTrack, at = "unpublish") *)
(* after the publications in done were handled: the rest of the try block, *)
(* room.disconnect() included, is skipped, the empty catch swallows the     *)
(* error and the statements after it run.                                  *)
DisconnectThrown(w, t, done, at) ==
  IF w.rRoom = NoRoom THEN w
  ELSE LET s == w.rRoom
           stopped == IF at = "unpublish" THEN done \cup {t} ELSE done
           w1 == [w EXCEPT !.isDisconnectingRef = TRUE,
                           !.disconnectCalls[s] = Bump(@)]
           w2 == [w1 EXCEPT !.liveTracks[s] = @ \ stopped,
                            !.published[s] = @ \ done,
                            !.trackStops[s] = IF stopped = {} THEN @ ELSE Bump(@)]
           w3 == SetState(w2, [w2 EXCEPT !.room = NoRoom, !.isConnected = FALSE,
                                         !.participants = <<>>])
       IN [w3 EXCEPT !.isConnectingRef = FALSE, !.connectionInstanceRef = Null]

(* ------------------------------- effects ------------------------------ *)

(* Cleanup of the auto-connect effect; it reads the room and the token of  *)
(* the render that set the effect up.                                      *)
AutoConnectCleanup(w) ==
  IF w.rRoom # NoRoom /\ w.token # TheRoomName /\ ~w.isDisconnectingRef
  THEN [RoomDisconnect(w, w.rRoom) EXCEPT !.isConnectingRef = FALSE,
                                          !.connectionInstanceRef = Null]
  ELSE w

(* Cleanup of the effect on [room]. *)
RoomCleanup(w) ==
  LET w1 == IF w.rRoom # NoRoom /\ ~w.isDisconnectingRef
            THEN RoomDisconnect(w, w.rRoom) ELSE w
  IN [w1 EXCEPT !.isConnectingRef = FALSE, !.connectionInstanceRef = Null]

AutoConnectEffect_NoFlag(w, instanceId) ==
  IF w.token # "" /\ w.roomName # "" /\ w.rRoom = NoRoom /\ ~w.rIsConnecting
  THEN ConnectToRoom(w, instanceId, w.cRoom)
  ELSE w

(* Body of the auto-connect effect, with the values of its render. *)
AutoConnectEffect(w, instanceId) ==
  IF w.isDisconnectingRef THEN w
  ELSE IF w.token # "" /\ w.roomName # "" /\ w.rRoom = NoRoom /\ ~w.rIsConnecting
       THEN ConnectToRoom(w, instanceId, w.cRoom)
       ELSE w

(* One render of the hook with props tok, rn: the cleanups of the effects  *)
(* whose dependencies changed run with the previous render's values, the   *)
(* closures are renewed, then the effect bodies run.  cbChanged: the       *)
(* parent passed a new onDisconnect function.                              *)
Render(w, tok, rn, cbChanged, instanceId) ==
  LET depsAuto == tok # w.token \/ rn # w.roomName \/ w.room # w.rRoom
                  \/ w.isConnecting # w.rIsConnecting
      depsRoom == w.room # w.rRoom
      recreated == tok # w.token \/ rn # w.roomName \/ cbChanged
      w1 == IF depsAuto THEN AutoConnectCleanup(w) ELSE w
      w2 == IF depsRoom THEN RoomCleanup(w1) ELSE w1
      w3 == [w2 EXCEPT !.token = tok, !.roomName = rn, !.rRoom = w.room,
                       !.rIsConnecting = w.isConnecting,
                       !.cRoom = IF recreated THEN w.room ELSE @]
  IN IF depsAuto THEN AutoConnectEffect(w3, instanceId) ELSE w3

Abandon(w) ==
  [w EXCEPT !.abandoned = [s \in Sessions |-> @[s] \/ w.sess[s] = "pending"]]

(* ------------------------ media controls ------------------------------ *)
(* The toggles of videoControls.  The camera and microphone tracks of a    *)
(* session are known by session and kind.  Every getDisplayMedia request   *)
(* is one entry of captures: st is where the toggleScreenShare call that   *)
(* made it stands, room the room of its closure, live whether the capture  *)
(* track runs, pub whether it is a publication of localParticipant, and    *)
(* enabled the enabled flag of the track.                                  *)

MaxCaptures == 1

NoCapture == 0
Captures == 1..(MaxCaptures + 1)
NoShare ==
  [st |-> "none", room |-> NoRoom, live |-> FALSE, pub |-> FALSE, enabled |-> FALSE]
NoBase == [n |-> "none"]

VARIABLES
  (* useState store and the values of the last render *)
  isVideoEnabled, isAudioEnabled, isScreenShared,
  rIsVideoEnabled, rIsAudioEnabled, rIsScreenShared,
  (* ref, the enabled flags of the camera and microphone tracks, captures *)
  screenShareTrackRef, trackEnabled, captures,
  (* history, read only by the properties *)
  mediaOp, lastToast, evenBase

mediaVars == <<isVideoEnabled, isAudioEnabled, isScreenShared, rIsVideoEnabled,
               rIsAudioEnabled, rIsScreenShared, screenShareTrackRef,
               trackEnabled, captures, mediaOp, lastToast, evenBase>>

Media ==
  [isVideoEnabled |-> isVideoEnabled, isAudioEnabled |-> isAudioEnabled,
   isScreenShared |-> isScreenShared, rIsVideoEnabled |-> rIsVideoEnabled,
   rIsAudioEnabled |-> rIsAudioEnabled, rIsScreenShared |-> rIsScreenShared,
   screenShareTrackRef |-> screenShareTrackRef, trackEnabled |-> trackEnabled,
   captures |-> captures, mediaOp |-> mediaOp, lastToast |-> lastToast,
   evenBase |-> evenBase]

CommitMedia(m) ==
  /\ isVideoEnabled' = m.isVideoEnabled /\ isAudioEnabled' = m.isAudioEnabled
  /\ isScreenShared' = m.isScreenShared
  /\ rIsVideoEnabled' = m.rIsVideoEnabled
  /\ rIsAudioEnabled' = m.rIsAudioEnabled
  /\ rIsScreenShared' = m.rIsScreenShared
  /\ screenShareTrackRef' = m.screenShareTrackRef
  /\ trackEnabled' = m.trackEnabled /\ captures' = m.captures
  /\ mediaOp' = m.mediaOp /\ lastToast' = m.lastToast
  /\ evenBase' = m.evenBase

Hush(m) == [m EXCEPT !.mediaOp = "none", !.lastToast = "none"]

(* setIsScreenShared from a continuation or a listener: dropped by React   *)
(* once the component is unmounted.                                        *)
SetIsScreenShared(w, m, v) ==
  IF w.mounted = "unmounted" THEN m ELSE [m EXCEPT !.isScreenShared = v]

(* The capture tracks among room.localParticipant.videoTracks. *)
PublishedShares(m, s) == {c \in Captures : m.captures[c].pub /\ m.captures[c].room = s}

(* track.enable() / track.disable() on every publication of the kind. *)
SetTracksEnabled(w, m, s, kind, on) ==
  [m EXCEPT !.trackEnabled[s][kind] = IF kind \in w.published[s] THEN on ELSE @,
            !.captures = [c \in Captures |->
                            IF kind = "video" /\ c \in PublishedShares(m, s)
                            THEN [@[c] EXCEPT !.enabled = on] ELSE @[c]]]

ToggleVideo_NoGuard(w, m) ==
  LET on == ~m.rIsVideoEnabled
      m1 == IF w.rRoom = NoRoom THEN m
            ELSE SetTracksEnabled(w, m, w.rRoom, "video", on)
  IN [m1 EXCEPT !.isVideoEnabled = on, !.mediaOp = "toggleVideo",
                !.lastToast = IF on THEN "success" ELSE "info"]

ToggleVideo(w, m) ==
  IF w.rRoom = NoRoom THEN [m EXCEPT !.mediaOp = "toggleVideo"]
  ELSE LET on == ~m.rIsVideoEnabled
       IN [SetTracksEnabled(w, m, w.rRoom, "video", on)
             EXCEPT !.isVideoEnabled = on, !.mediaOp = "toggleVideo",
                    !.lastToast = IF on THEN "success" ELSE "info"]

ToggleAudio(w, m) ==
  IF w.rRoom = NoRoom THEN [m EXCEPT !.mediaOp = "toggleAudio"]
  ELSE LET on == ~m.rIsAudioEnabled
       IN [SetTracksEnabled(w, m, w.rRoom, "audio", on)
             EXCEPT !.isAudioEnabled = on, !.mediaOp = "toggleAudio",
                    !.lastToast = IF on THEN "success" ELSE "info"]

FreeCapture(m) ==
  CHOOSE c \in Captures :
    /\ m.captures[c].st = "none"
    /\ \A d \in Captures : m.captures[d].st = "none" => c <= d

(* toggleScreenShare up to its first await: the stop branch whole, the     *)
(* start branch up to the getDisplayMedia request.                         *)
ToggleScreenShare(w, m) ==
  IF w.rRoom = NoRoom THEN [m EXCEPT !.mediaOp = "toggleScreenShare"]
  ELSE IF m.rIsScreenShared
  THEN LET c == m.screenShareTrackRef
           m1 == IF c = NoCapture THEN m
                 ELSE [m EXCEPT !.captures[c].pub =
                                   IF m.captures[c].room = w.rRoom THEN FALSE ELSE @,
                                !.captures[c].live = FALSE,
                                !.screenShareTrackRef = NoCapture]
       IN [m1 EXCEPT !.isScreenShared = FALSE, !.mediaOp = "toggleScreenShare",
                     !.lastToast = "info"]
  ELSE [m EXCEPT !.captures[FreeCapture(m)] =
                    [NoShare EXCEPT !.st = "requested", !.room = w.rRoom],
                 !.mediaOp = "toggleScreenShare"]

(* getDisplayMedia resolved: lines 347-350 up to the await of publishTrack. *)
CaptureGranted(m, c) ==
  [m EXCEPT !.captures[c].st = "publishing", !.captures[c].live = TRUE,
            !.captures[c].enabled = TRUE, !.screenShareTrackRef = c,
            !.mediaOp = "capture granted"]

CaptureDenied_Shares(w, m, c) ==
  [SetIsScreenShared(w, m, TRUE)
     EXCEPT !.captures[c].st = "denied", !.mediaOp = "capture rejected",
            !.lastToast = "error"]

(* getDisplayMedia rejected: the catch of line 360. *)
CaptureDenied(w, m, c) ==
  [m EXCEPT !.captures[c].st = "denied", !.mediaOp = "capture rejected",
            !.lastToast = "error"]

(* publishTrack resolved: lines 351-358. *)
PublishResolved(w, m, c) ==
  [SetIsScreenShared(w, m, TRUE)
     EXCEPT !.captures[c].st = "shared", !.captures[c].pub = TRUE,
            !.mediaOp = "published", !.lastToast = "success"]

(* publishTrack rejected: the catch of line 360. *)
PublishRejected(m, c) ==
  [m EXCEPT !.captures[c].st = "failed", !.mediaOp = "publish rejected",
            !.lastToast = "error"]

(* The capture ends from outside (the browser's stop-sharing control); the *)
(* 'ended' listener of lines 355-358 exists once the publish has resolved. *)
OnEnded(w, m, c) ==
  LET m1 == [m EXCEPT !.captures[c].live = FALSE, !.mediaOp = "ended"]
  IN IF m.captures[c].st = "shared"
     THEN [SetIsScreenShared(w, m1, FALSE) EXCEPT !.screenShareTrackRef = NoCapture]
     ELSE m1

(* What connectToRoom does to the media state after connect() resolved:    *)
(* the session's new local tracks are enabled, lines 103-134.              *)
ConnectedMedia(w, m, s) ==
  LET m1 == [m EXCEPT !.trackEnabled[s] = [k \in TrackKinds |-> TRUE]]
  IN IF w.mounted = "unmounted" THEN m1
     ELSE [m1 EXCEPT !.isVideoEnabled = TRUE, !.isAudioEnabled = TRUE]

(* What disconnect() does to the media state: the published capture tracks *)
(* are stopped and unpublished with the other local tracks (223-241), the  *)
(* referenced capture track is stopped and forgotten (258-261).            *)
DisconnectMedia(w, m) ==
  IF w.rRoom = NoRoom THEN [m EXCEPT !.mediaOp = "disconnect"]
  ELSE LET c == m.screenShareTrackRef
           m1 == [m EXCEPT !.captures = [d \in Captures |->
                              IF d \in PublishedShares(m, w.rRoom)
                              THEN [@[d] EXCEPT !.live = FALSE, !.pub = FALSE]
                              ELSE @[d]]]
           m2 == IF c = NoCapture THEN m1
                 ELSE [m1 EXCEPT !.captures[c].live = FALSE,
                                 !.screenShareTrackRef = NoCapture]
       IN [m2 EXCEPT !.mediaOp = "disconnect"]

(* The media part of a disconnect() whose forEach threw before it reached  *)
(* the capture publications: only lines 258-261 act on them.               *)
DisconnectThrownMedia(w, m) ==
  IF w.rRoom = NoRoom THEN [m EXCEPT !.mediaOp = "disconnect"]
  ELSE LET c == m.screenShareTrackRef
           m2 == IF c = NoCapture THEN m
                 ELSE [m EXCEPT !.captures[c].live = FALSE,
                                !.screenShareTrackRef = NoCapture]
       IN [m2 EXCEPT !.mediaOp = "disconnect"]

(* The cleanup of the effect on [room], lines 415-417. *)
RoomCleanupMedia(m) ==
  IF m.screenShareTrackRef = NoCapture THEN m
  ELSE [m EXCEPT !.captures[m.screenShareTrackRef].live = FALSE]

(* The media part of one render. *)
RenderMedia(w, m) ==
  LET m1 == IF w.room # w.rRoom THEN RoomCleanupMedia(m) ELSE m
  IN [m1 EXCEPT !.rIsVideoEnabled = m.isVideoEnabled,
                !.rIsAudioEnabled = m.isAudioEnabled,
                !.rIsScreenShared = m.isScreenShared]

MediaDirty ==
  \/ isVideoEnabled # rIsVideoEnabled \/ isAudioEnabled # rIsAudioEnabled
  \/ isScreenShared # rIsScreenShared

(* The state of the local video tracks of session s: the flag of the hook, *)
(* the enabled flag of the camera track and of every published capture.    *)
VideoState(m, s) ==
  [flag |-> m.isVideoEnabled, camera |-> m.trackEnabled[s]["video"],
   shares |-> [c \in PublishedShares(m, s) |-> m.captures[c].enabled]]

(* History of toggleVideo: the calls are taken in pairs.  A call made on   *)
(* the connected session by the callback of the latest render opens a pair *)
(* and keeps the state before it; the next one closes the pair when the    *)
(* session and its set of local video tracks are the same, and records     *)
(* whether the state after it (m2) is the state kept.                      *)
CountToggle(w, m, m2) ==
  LET s == w.rRoom
      counted == /\ s # NoRoom /\ w.room = s /\ w.sess[s] = "connected"
                 /\ m.rIsVideoEnabled = m.isVideoEnabled
      open == [n |-> "odd", room |-> s, before |-> VideoState(m, s)]
  IN IF ~counted THEN NoBase
     ELSE IF m.evenBase.n # "odd" THEN open
     ELSE IF \/ m.evenBase.room # s
             \/ DOMAIN m.evenBase.before.shares # PublishedShares(m, s)
     THEN open
     ELSE [n |-> "even", restored |-> (VideoState(m2, s) = m.evenBase.before)]

(* ============================== middleware ============================= *)
(* A pathname is a sequence of pieces, "/" and words; no piece is a prefix *)
(* of another, so one pathname starts with another as a string exactly     *)
(* when it does as a sequence of pieces.                                   *)

MaxPath == 3

Pieces == {"/", "dashboard", "patients", "providers", "visits", "video",
           "auth", "login", "about", "api", "x"}

RECURSIVE PathsOf(_)
PathsOf(n) ==
  IF n = 0 THEN {<<"/">>}
  ELSE LET shorter == PathsOf(n - 1)
       IN shorter \cup {Append(p, c) : p \in shorter, c \in Pieces}

Pathnames == PathsOf(MaxPath)

NoCookie == "absent"
Cookies == {NoCookie, "", "jwt"}

protectedRoutes == {<<"/", "dashboard">>, <<"/", "patients">>,
                    <<"/", "providers">>, <<"/", "visits">>, <<"/", "video">>}

publicRoutes == {<<"/", "auth", "/", "login">>, <<"/", "auth", "/", "register">>,
                 <<"/">>, <<"/", "about">>}

StartsWith(s, prefix) ==
  Len(prefix) <= Len(s) /\ SubSeq(s, 1, Len(prefix)) = prefix

PassNext == [kind |-> "next"]
NoResponse == [kind |-> "none"]
RedirectToLogin(pathname) ==
  [kind |-> "redirect", to |-> <<"/", "auth", "/", "login">>, redirect |-> pathname]

(* config.matcher: every path but those that go on with api, _next/static, *)
(* _next/image or favicon.ico after the first slash.                       *)
Matcher(pathname) == ~StartsWith(pathname, <<"/", "api">>)

(* middleware(request) of src/middleware.ts; the one of src/src differs    *)
(* only in a try block around its return of NextResponse.next().           *)
middleware(pathname, cookie) ==
  IF \E route \in publicRoutes : StartsWith(pathname, route) THEN PassNext
  ELSE IF \E route \in protectedRoutes : StartsWith(pathname, route)
       THEN IF cookie = NoCookie \/ cookie = ""
            THEN RedirectToLogin(pathname)
            ELSE PassNext
       ELSE PassNext

VARIABLES pathname, authToken, response

requestVars == <<pathname, authToken, response>>

(* One request: the middleware runs if the matcher selects the path. *)
HandleRequest ==
  \E p \in Pathnames, cookie \in Cookies :
     /\ response = NoResponse
     /\ pathname' = p /\ authToken' = cookie
     /\ response' = IF Matcher(p) THEN middleware(p, cookie)
                    ELSE [kind |-> "unmatched"]

(* No request has been made. *)
InitRequest ==
  /\ pathname = <<>> /\ authToken = NoCookie /\ response = NoResponse

(* ------------------------ VideoCall: leaving -------------------------- *)
(* directOnDisconnectCalls counts the calls of the parent's onDisconnect   *)
(* that VideoCall.handleDisconnect makes itself; the ones made by the      *)
(* 'disconnected' listener are counted per session in onDisconnectCalls.   *)

VARIABLES directOnDisconnectCalls

leaveVars == <<directOnDisconnectCalls>>

InitLeave == directOnDisconnectCalls = 0

(* ---------------------- video page: joining a visit -------------------- *)
(* VideoPageContent.handleJoinCall asks useVideoToken.getTokenForVisit for *)
(* a token and then renders VideoCall; the guest page gets its token from  *)
(* getGuestVideoToken and renders VideoCall with isGuest.  startVisitCalls *)
(* counts the calls of apiService.startVisit: early the ones made with no  *)
(* session established, room[s] the ones made for session s.               *)

VARIABLES joinPhase, isGuest, startVisitCalls

visitVars == <<joinPhase, isGuest, startVisitCalls>>

Visit == [joinPhase |-> joinPhase, isGuest |-> isGuest,
          startVisitCalls |-> startVisitCalls]

CommitVisit(p) ==
  /\ joinPhase' = p.joinPhase /\ isGuest' = p.isGuest
  /\ startVisitCalls' = p.startVisitCalls

(* handleJoinCall up to the await of the token request. *)
HandleJoinCall(p, guest) ==
  [p EXCEPT !.isGuest = guest, !.joinPhase = "token requested"]

(* getTokenForVisit after getVideoToken resolved: startVisit is called and *)
(* awaited before the token is returned.  The guest page has no such call. *)
GetTokenResolved(p) ==
  IF p.isGuest THEN [p EXCEPT !.joinPhase = "in call"]
  ELSE [p EXCEPT !.startVisitCalls.early = Bump(@),
                 !.joinPhase = "starting visit"]

(* The startVisit of getTokenForVisit settled; a rejection is swallowed    *)
(* and handleJoinCall goes on to setInCall(true) either way.               *)
EarlyStartSettled(p) == [p EXCEPT !.joinPhase = "in call"]

(* handleRoomConnected, called by connectToRoom once connect() resolved.   *)
HandleRoomConnected(p, s) ==
  IF p.isGuest THEN p ELSE [p EXCEPT !.startVisitCalls.room[s] = Bump(@)]

JoinCall ==
  /\ joinPhase = "idle"
  /\ \E guest \in BOOLEAN : CommitVisit(HandleJoinCall(Visit, guest))

TokenResolve ==
  /\ joinPhase = "token requested"
  /\ CommitVisit(GetTokenResolved(Visit))

TokenReject ==
  /\ joinPhase = "token requested"
  /\ CommitVisit([Visit EXCEPT !.joinPhase = "idle"])

EarlyStartSettle ==
  /\ joinPhase = "starting visit"
  /\ CommitVisit(EarlyStartSettled(Visit))

InitVisit ==
  /\ joinPhase = "idle" /\ isGuest = FALSE
  /\ startVisitCalls = [early |-> 0, room |-> [s \in Sessions |-> 0]]

(* ------------------------------- actions ------------------------------ *)

Quiet(w) == [w EXCEPT !.lastCall = "none"]

(* First render, with the props the parent passes. *)
Mount ==
  /\ mounted = "mounting"
  /\ \E tok \in Tokens, rn \in RoomNames, id \in DrawIds :
       LET w == AutoConnectEffect([Quiet(World) EXCEPT !.token = tok,
                                                      !.roomName = rn], id)
       IN /\ w.lastCall # "overflow"
          /\ Commit([w EXCEPT !.mounted = "mounted"])
  /\ CommitMedia(Hush(Media))

StateRender ==
  /\ mounted = "mounted"
  /\ room # rRoom \/ isConnecting # rIsConnecting \/ MediaDirty
  /\ \E id \in DrawIds :
       LET w == Render(Quiet(World), token, roomName, FALSE, id)
       IN w.lastCall # "overflow" /\ Commit(w)
  /\ CommitMedia(RenderMedia(World, Hush(Media)))

ParentRender ==
  /\ mounted = "mounted"
  /\ \E tok \in Tokens, cb \in BOOLEAN, id \in DrawIds :
       /\ tok # token \/ cb
       /\ LET w == Render(Quiet(World), tok, roomName, cb, id)
          IN w.lastCall # "overflow" /\ Commit(w)
  /\ CommitMedia(RenderMedia(World, Hush(Media)))

Unmount ==
  /\ mounted = "mounted"
  /\ Commit([RoomCleanup(AutoConnectCleanup(Abandon(Quiet(World))))
               EXCEPT !.mounted = "unmounted"])
  /\ CommitMedia(RoomCleanupMedia(Hush(Media)))

ConnectToRoomCall ==
  /\ mounted = "mounted"
  /\ \E id \in DrawIds :
       LET w == ConnectToRoom(Quiet(World), id, cRoom)
       IN w.lastCall # "overflow" /\ Commit(w)
  /\ CommitMedia(Hush(Media))

DisconnectCall ==
  /\ mounted = "mounted"
  /\ Commit(Disconnect(Abandon(Quiet(World))))
  /\ CommitMedia(DisconnectMedia(World, Hush(Media)))

(* disconnect() is called and one of its track operations throws. *)
DisconnectCallThrows ==
  /\ mounted = "mounted" /\ rRoom # NoRoom
  /\ \E t \in published[rRoom], at \in {"stop", "unpublish"} :
       \E done \in SUBSET (published[rRoom] \ {t}) :
          Commit(DisconnectThrown(Abandon(Quiet(World)), t, done, at))
  /\ CommitMedia(DisconnectThrownMedia(World, Hush(Media)))

(* VideoCall.handleDisconnect, the leave button: disconnect() of the hook, *)
(* then onDisconnect() of the parent.                                      *)
HandleDisconnect ==
  /\ DisconnectCall
  /\ directOnDisconnectCalls' = Bump(directOnDisconnectCalls)

(* The page renders VideoCall once inCall is set. *)
PageMount == joinPhase = "in call" /\ Mount

ConnectResolve ==
  \E s \in Sessions, initial \in {<<>>} \cup {<<p>> : p \in RemoteIds} :
     /\ sess[s] = "pending"
     /\ Commit(ConnectResolved(Quiet(World), s, initial))
     /\ CommitMedia(ConnectedMedia(World, Hush(Media), s))
     /\ CommitVisit(HandleRoomConnected(Visit, s))

ConnectReject ==
  \E s \in Sessions :
     /\ sess[s] = "pending"
     /\ Commit(ConnectRejected(Quiet(World), s))
     /\ CommitMedia(Hush(Media))

(* The transport loses a connected session and reports it. *)
TransportDrop ==
  \E s \in Sessions :
     /\ sess[s] = "connected"
     /\ Commit(RoomDisconnect([Quiet(World) EXCEPT !.dropped[s] = TRUE], s))
     /\ CommitMedia(Hush(Media))

(* The 'disconnected' event of a closed session is delivered once more. *)
RedeliverDisconnected ==
  \E s \in Sessions :
     /\ sess[s] = "disconnected"
     /\ Commit(OnDisconnected(Quiet(World), s))
     /\ CommitMedia(Hush(Media))

(* A remote participant joins a connected session. *)
ParticipantConnected ==
  \E s \in Sessions, p \in JoinerIds :
     /\ sess[s] = "connected" /\ p \notin Members(roster[s])
     /\ Commit(OnParticipantConnected(Quiet(World), s, p))
     /\ CommitMedia(Hush(Media))

(* A remote participant leaves a connected session. *)
ParticipantDisconnected ==
  \E s \in Sessions :
     /\ sess[s] = "connected"
     /\ \E p \in Members(roster[s]) :
          Commit(OnParticipantDisconnected(Quiet(World), s, p))
     /\ CommitMedia(Hush(Media))

CleanupTimerFire ==
  /\ cleanupTimer # NoTimer
  /\ now >= cleanupTimer
  /\ Commit([Quiet(World) EXCEPT !.isCleaningUpRef = FALSE, !.cleanupTimer = NoTimer])
  /\ CommitMedia(Hush(Media))

Tick ==
  /\ now + TickMs <= MaxNow
  /\ Commit([Quiet(World) EXCEPT !.now = @ + TickMs])
  /\ CommitMedia(Hush(Media))

(* The user presses the camera button. *)
ToggleVideoCall ==
  /\ mounted = "mounted"
  /\ CommitMedia(ToggleVideo(World, Hush(Media)))
  /\ UNCHANGED callVars

(* The same call, with the history of the pairs of calls kept. *)
ToggleVideoCounted ==
  /\ mounted = "mounted"
  /\ LET m == ToggleVideo(World, Hush(Media))
     IN CommitMedia([m EXCEPT !.evenBase = CountToggle(World, Media, m)])
  /\ UNCHANGED callVars

ToggleAudioCall ==
  /\ mounted = "mounted"
  /\ CommitMedia(ToggleAudio(World, Hush(Media)))
  /\ UNCHANGED callVars

ToggleScreenShareCall ==
  /\ mounted = "mounted"
  /\ (rRoom # NoRoom /\ ~rIsScreenShared) =>
        Cardinality({c \in Captures : captures[c].st # "none"}) < MaxCaptures
  /\ CommitMedia(ToggleScreenShare(World, Hush(Media)))
  /\ UNCHANGED callVars

(* The share button is pressed again while an earlier invocation has not   *)
(* been rendered as shared: its closure has isScreenShared = false and it  *)
(* takes the start branch as well.                                         *)
ToggleScreenShareAgain ==
  /\ mounted = "mounted"
  /\ rRoom # NoRoom /\ ~rIsScreenShared
  /\ \E c \in Captures : captures[c].st # "none"
  /\ \E c \in Captures : captures[c].st = "none"
  /\ CommitMedia(ToggleScreenShare(World, Hush(Media)))
  /\ UNCHANGED callVars

CaptureResolve ==
  \E c \in Captures :
     /\ captures[c].st = "requested"
     /\ CommitMedia(CaptureGranted(Hush(Media), c))
     /\ UNCHANGED callVars

CaptureReject ==
  \E c \in Captures :
     /\ captures[c].st = "requested"
     /\ CommitMedia(CaptureDenied(World, Hush(Media), c))
     /\ UNCHANGED callVars

PublishResolve ==
  \E c \in Captures :
     /\ captures[c].st = "publishing"
     /\ CommitMedia(PublishResolved(World, Hush(Media), c))
     /\ UNCHANGED callVars

PublishReject ==
  \E c \in Captures :
     /\ captures[c].st = "publishing"
     /\ CommitMedia(PublishRejected(Hush(Media), c))
     /\ UNCHANGED callVars

TrackEnded ==
  \E c \in Captures :
     /\ captures[c].live
     /\ CommitMedia(OnEnded(World, Hush(Media), c))
     /\ UNCHANGED callVars

InitCall ==
  /\ token = "" /\ roomName = ""
  /\ room = NoRoom /\ isConnecting = FALSE /\ isConnected = FALSE
  /\ participants = <<>>
  /\ rRoom = NoRoom /\ rIsConnecting = FALSE /\ cRoom = NoRoom
  /\ isConnectingRef = FALSE /\ connectionInstanceRef = Null
  /\ lastConnectionAttemptRef = 0
  /\ isCleaningUpRef = FALSE /\ isDisconnectingRef = FALSE
  /\ mounted = "mounting" /\ now = Epoch /\ cleanupTimer = NoTimer
  /\ sess = [s \in Sessions |-> "none"]
  /\ published = [s \in Sessions |-> {}]
  /\ liveTracks = [s \in Sessions |-> {}]
  /\ roster = [s \in Sessions |-> <<>>]
  /\ lastConnectAt = 0 /\ connectsInWindow = 0
  /\ abandoned = [s \in Sessions |-> FALSE]
  /\ dropped = [s \in Sessions |-> FALSE]
  /\ onDisconnectCalls = [s \in Sessions |-> 0]
  /\ disconnectCalls = [s \in Sessions |-> 0]
  /\ closures = [s \in Sessions |-> 0]
  /\ trackStops = [s \in Sessions |-> 0]
  /\ lastCall = "none"

InitMedia ==
  /\ isVideoEnabled = TRUE /\ isAudioEnabled = TRUE /\ isScreenShared = FALSE
  /\ rIsVideoEnabled = TRUE /\ rIsAudioEnabled = TRUE
  /\ rIsScreenShared = FALSE
  /\ screenShareTrackRef = NoCapture
  /\ trackEnabled = [s \in Sessions |-> [k \in TrackKinds |-> FALSE]]
  /\ captures = [c \in Captures |-> NoShare]
  /\ mediaOp = "none" /\ lastToast = "none" /\ evenBase = NoBase

(* ======================= useSpeechRecognition ========================== *)
(* isEnabled and speakerName are props (the values of the last render);    *)
(* isSupported and isListening are useState stores with their rendered     *)
(* snapshots.  Every run of the first effect creates a SpeechRecognition   *)
(* engine whose handlers close over the isEnabled of that render.          *)

MaxEngines == 2
MaxTimers == 1
MaxBatch == 2
MaxJobs == 1

NoEngine == 0
Engines == 1..MaxEngines
SpeakerNames == {"Dr. A", "Dr. B"}
ErrorKinds == {"not-allowed", "no-speech", "aborted", "network"}
Transcripts == {"hola"}
Results == [transcript : Transcripts, isFinal : BOOLEAN]
Batches == UNION {[1..n -> Results] : n \in 1..MaxBatch}
NoSave == [is_final |-> "none"]

VARIABLES
  browserSupports,
  isEnabled, speakerName,
  isSupported, isListening, rIsSupported, rIsListening,
  recognitionRef, engState, hEnabled, restartTimers, spPhase,
  jobs,
  (* history, read only by the properties *)
  lastStart, denied, endReported, lastSaved, skippedInterim, lastSettle,
  settledRest, saveFailed

speechVars == <<browserSupports, isEnabled, speakerName, isSupported,
                isListening, rIsSupported, rIsListening, recognitionRef,
                engState, hEnabled, restartTimers, spPhase, jobs,
                lastStart, denied, endReported, lastSaved, skippedInterim,
                lastSettle, settledRest, saveFailed>>

Hook ==
  [browserSupports |-> browserSupports, isEnabled |-> isEnabled,
   speakerName |-> speakerName, isSupported |-> isSupported,
   isListening |-> isListening, rIsSupported |-> rIsSupported,
   rIsListening |-> rIsListening, recognitionRef |-> recognitionRef,
   engState |-> engState, hEnabled |-> hEnabled,
   restartTimers |-> restartTimers, spPhase |-> spPhase, jobs |-> jobs,
   lastStart |-> lastStart, denied |-> denied, endReported |-> endReported,
   lastSaved |-> lastSaved, skippedInterim |-> skippedInterim,
   lastSettle |-> lastSettle, settledRest |-> settledRest,
   saveFailed |-> saveFailed]

CommitHook(h) ==
  /\ browserSupports' = h.browserSupports /\ isEnabled' = h.isEnabled
  /\ speakerName' = h.speakerName /\ isSupported' = h.isSupported
  /\ isListening' = h.isListening /\ rIsSupported' = h.rIsSupported
  /\ rIsListening' = h.rIsListening /\ recognitionRef' = h.recognitionRef
  /\ engState' = h.engState /\ hEnabled' = h.hEnabled
  /\ restartTimers' = h.restartTimers /\ spPhase' = h.spPhase
  /\ jobs' = h.jobs
  /\ lastStart' = h.lastStart /\ denied' = h.denied
  /\ endReported' = h.endReported /\ lastSaved' = h.lastSaved
  /\ skippedInterim' = h.skippedInterim
  /\ lastSettle' = h.lastSettle /\ settledRest' = h.settledRest
  /\ saveFailed' = h.saveFailed

Active(st) == st \in {"starting", "running", "stopping"}

(* recognition.start(): throws InvalidStateError ("... already started")   *)
(* unless the engine is idle.                                              *)
StartThrows(h, e) == h.engState[e] # "idle"

EngineStart(h, e) ==
  IF StartThrows(h, e) THEN [h EXCEPT !.lastStart = "threw"]
  ELSE [h EXCEPT !.engState[e] = "starting", !.lastStart = "ok"]

(* recognition.stop(): the engine ends later with an 'end' event. *)
EngineStop(h, e) ==
  IF h.engState[e] \in {"starting", "running"}
  THEN [h EXCEPT !.engState[e] = "stopping"] ELSE h

(* The request body of apiService.saveTranscription for one result. *)
Payload(r) == [text |-> r.transcript, is_final |-> r.isFinal]

NextSubmitted_NoFilter(batch, i) == IF i <= Len(batch) THEN i ELSE 0

(* The loop of onresult from index i, up to its next await: the index of   *)
(* the result it submits, or 0 when it runs to the end of the list.        *)
NextSubmitted(batch, i) ==
  LET finals == {k \in i..Len(batch) : batch[k].isFinal}
  IN IF finals = {} THEN 0 ELSE CHOOSE k \in finals : \A j \in finals : k <= j

(* An invocation suspended at its await is kept as the results its loop    *)
(* has still to visit.                                                     *)
RunLoop(h, batch, i) ==
  LET k == NextSubmitted(batch, i)
  IN IF k = 0 THEN h
     ELSE [h EXCEPT !.jobs = Append(@, SubSeq(batch, k + 1, Len(batch))),
                    !.lastSaved = Payload(batch[k]),
                    !.skippedInterim = \E j \in i..(k - 1) : ~batch[j].isFinal]

(* recognition.onresult *)
OnResult(h, batch, resultIndex) ==
  LET h1 == RunLoop(h, batch, resultIndex)
  IN [h1 EXCEPT !.saveFailed = IF @ = "yes" /\ h1.lastSaved # NoSave
                               THEN "then submitted" ELSE @]

RemoveAt(q, k) == [j \in 1..(Len(q) - 1) |-> IF j < k THEN q[j] ELSE q[j + 1]]

(* The await of line 102 without the try / catch around it: a rejection    *)
(* ends the invocation.                                                    *)
SaveSettled_Uncaught(h, k, ok) ==
  LET h1 == [h EXCEPT !.jobs = RemoveAt(@, k), !.settledRest = h.jobs[k],
                      !.lastSettle = IF ok THEN "resolved" ELSE "rejected",
                      !.saveFailed = IF ok THEN @ ELSE IF @ = "no" THEN "yes" ELSE @]
  IN IF ok THEN RunLoop(h1, h.jobs[k], 1) ELSE h1

(* saveTranscription settles: resolved, or rejected and caught at line     *)
(* 111; either way the loop of that invocation goes on.                    *)
SaveSettled(h, k, ok) ==
  LET h1 == [h EXCEPT !.jobs = RemoveAt(@, k), !.settledRest = h.jobs[k],
                      !.lastSettle = IF ok THEN "resolved" ELSE "rejected",
                      !.saveFailed = IF ok THEN @ ELSE IF @ = "no" THEN "yes" ELSE @]
  IN RunLoop(h1, h.jobs[k], 1)

(* recognition.onerror *)
OnError(h, kind) ==
  IF kind = "no-speech" THEN h ELSE [h EXCEPT !.isListening = FALSE]

(* recognition.onend of an engine whose handlers saw isEnabled = closure *)
OnEnd(h, closure) ==
  LET h1 == [h EXCEPT !.isListening = FALSE]
  IN IF closure /\ h1.recognitionRef # NoEngine
     THEN [h1 EXCEPT !.restartTimers = IF @ < MaxTimers THEN @ + 1 ELSE @]
     ELSE h1

(* The callback of the setTimeout of onend; it is only ever created by a   *)
(* handler whose isEnabled is true.                                        *)
RestartTimeout(h, closure) ==
  IF closure /\ h.recognitionRef # NoEngine
  THEN LET h1 == EngineStart(h, h.recognitionRef)
       IN IF h1.lastStart = "ok" THEN [h1 EXCEPT !.isListening = TRUE] ELSE h1
  ELSE h

(* Cleanup of the first effect. *)
EngineEffectCleanup(h) ==
  IF h.recognitionRef # NoEngine THEN EngineStop(h, h.recognitionRef) ELSE h

FreeEngine(h) ==
  CHOOSE e \in Engines : h.engState[e] = "none"
                         /\ \A u \in Engines : h.engState[u] = "none" => e <= u

(* Body of the first effect (deps: visitId, speakerName, speakerType). *)
EngineEffect(h) ==
  LET h1 == [h EXCEPT !.isSupported = h.browserSupports]
  IN IF ~h.browserSupports THEN h1
     ELSE LET e == FreeEngine(h)
          IN [h1 EXCEPT !.engState[e] = "idle", !.hEnabled[e] = h.isEnabled,
                        !.recognitionRef = e]

(* Body of the second effect, with the values of its render. *)
StartStopEffect(h) ==
  IF ~h.rIsSupported \/ h.recognitionRef = NoEngine THEN h
  ELSE IF h.isEnabled /\ ~h.rIsListening
       THEN [EngineStart(h, h.recognitionRef) EXCEPT !.isListening = TRUE]
  ELSE IF ~h.isEnabled /\ h.rIsListening
       THEN [EngineStop(h, h.recognitionRef) EXCEPT !.isListening = FALSE]
  ELSE h

(* One render with props en, name. *)
SpeechRender(h, en, name) ==
  LET deps1 == name # h.speakerName
      deps2 == en # h.isEnabled \/ h.isSupported # h.rIsSupported
               \/ h.isListening # h.rIsListening \/ name # h.speakerName
      h1 == IF deps1 THEN EngineEffectCleanup(h) ELSE h
      h2 == [h1 EXCEPT !.isEnabled = en, !.speakerName = name,
                       !.rIsSupported = h.isSupported,
                       !.rIsListening = h.isListening,
                       !.denied = @ /\ en]
      h3 == IF deps1 THEN EngineEffect(h2) ELSE h2
  IN IF deps2 THEN StartStopEffect(h3) ELSE h3

Calm(h) == [h EXCEPT !.lastStart = "none", !.endReported = FALSE,
                     !.lastSaved = NoSave, !.skippedInterim = FALSE,
                     !.lastSettle = "none", !.settledRest = <<>>]

(* First render; what window.SpeechRecognition is gets known here. *)
SpeechMount ==
  /\ spPhase = "mounting"
  /\ \E sup \in BOOLEAN :
        LET h == [Calm(Hook) EXCEPT !.browserSupports = sup]
        IN CommitHook([StartStopEffect(EngineEffect(h)) EXCEPT !.spPhase = "mounted"])

SpeechStateRender ==
  /\ spPhase = "mounted"
  /\ isSupported # rIsSupported \/ isListening # rIsListening
  /\ CommitHook(SpeechRender(Calm(Hook), isEnabled, speakerName))

(* The parent toggles transcription. *)
ToggleEnabled ==
  /\ spPhase = "mounted"
  /\ CommitHook(SpeechRender(Calm(Hook), ~isEnabled, speakerName))

(* The parent passes another speaker name. *)
ChangeSpeaker ==
  /\ spPhase = "mounted"
  /\ \E name \in SpeakerNames \ {speakerName} :
        /\ browserSupports => \E e \in Engines : engState[e] = "none"
        /\ CommitHook(SpeechRender(Calm(Hook), isEnabled, name))

EngineStarted ==
  \E e \in Engines :
     /\ engState[e] = "starting"
     /\ CommitHook([Calm(Hook) EXCEPT !.engState[e] = "running", !.isListening = TRUE])

EngineError ==
  \E e \in Engines, kind \in ErrorKinds :
     /\ engState[e] \in {"starting", "running"}
     /\ LET h == OnError([Calm(Hook) EXCEPT !.engState[e] = "stopping"], kind)
        IN CommitHook([h EXCEPT !.denied = @ \/ (kind = "not-allowed" /\ isEnabled)])

(* The engine ends on its own (session length limit). *)
EngineEnds ==
  \E e \in Engines :
     /\ engState[e] \in {"starting", "running"}
     /\ CommitHook(OnEnd([Calm(Hook) EXCEPT !.engState[e] = "idle",
                            !.endReported = (e = recognitionRef)], hEnabled[e]))

(* The 'end' event that follows stop() or an error. *)
EngineStopped ==
  \E e \in Engines :
     /\ engState[e] = "stopping"
     /\ CommitHook(OnEnd([Calm(Hook) EXCEPT !.engState[e] = "idle",
                            !.endReported = (e = recognitionRef)], hEnabled[e]))

RestartTimerFire ==
  /\ restartTimers > 0
  /\ CommitHook(RestartTimeout([Calm(Hook) EXCEPT !.restartTimers = @ - 1], TRUE))

EngineResult ==
  \E e \in Engines, batch \in Batches :
     \E resultIndex \in 1..Len(batch) :
        /\ engState[e] = "running"
        /\ Len(jobs) < MaxJobs
        /\ CommitHook(OnResult(Calm(Hook), batch, resultIndex))

SaveSettle ==
  \E k \in 1..Len(jobs), ok \in BOOLEAN :
     CommitHook(SaveSettled(Calm(Hook), k, ok))

InitSpeech ==
  /\ browserSupports = FALSE
  /\ isEnabled = FALSE /\ speakerName = "Dr. A"
  /\ isSupported = FALSE /\ isListening = FALSE
  /\ rIsSupported = FALSE /\ rIsListening = FALSE
  /\ recognitionRef = NoEngine
  /\ engState = [e \in Engines |-> "none"]
  /\ hEnabled = [e \in Engines |-> FALSE]
  /\ jobs = <<>> /\ lastSaved = NoSave /\ skippedInterim = FALSE
  /\ lastSettle = "none" /\ settledRest = <<>> /\ saveFailed = "no"
  /\ restartTimers = 0 /\ spPhase = "mounting"
  /\ lastStart = "none" /\ denied = FALSE /\ endReported = FALSE


(* ========================== TranscriptionPanel ========================= *)
(* latestTranscription is an object: every response brings new objects, so *)
(* setLatestTranscription(newest) always differs from the rendered value   *)
(* (pDirty), also when the identifier is the same.  An utterance is its    *)
(* transcription_id, NoCaption is null / an empty response.                *)

MaxUtter == 2
MaxInFlight == 2

NoCaption == 0
UtterIds == 1..MaxUtter

VARIABLES
  pEnabled, latest, rLatest, pDirty, intervalOn, hideTimer, inflight,
  panelPhase, utterCount, recentEmpty,
  (* history, read only by the properties *)
  superseded, lastUpdate, repeatUpdate, pollIssued, lateResolve

panelVars == <<pEnabled, latest, rLatest, pDirty, intervalOn, hideTimer,
               inflight, panelPhase, utterCount, recentEmpty, superseded,
               lastUpdate, repeatUpdate, pollIssued, lateResolve>>

Panel ==
  [pEnabled |-> pEnabled, latest |-> latest, rLatest |-> rLatest,
   pDirty |-> pDirty, intervalOn |-> intervalOn, hideTimer |-> hideTimer,
   inflight |-> inflight, panelPhase |-> panelPhase,
   utterCount |-> utterCount, recentEmpty |-> recentEmpty,
   superseded |-> superseded, lastUpdate |-> lastUpdate,
   repeatUpdate |-> repeatUpdate, pollIssued |-> pollIssued,
   lateResolve |-> lateResolve]

CommitPanel(p) ==
  /\ pEnabled' = p.pEnabled /\ latest' = p.latest /\ rLatest' = p.rLatest
  /\ pDirty' = p.pDirty /\ intervalOn' = p.intervalOn
  /\ hideTimer' = p.hideTimer /\ inflight' = p.inflight
  /\ panelPhase' = p.panelPhase /\ utterCount' = p.utterCount
  /\ recentEmpty' = p.recentEmpty /\ superseded' = p.superseded
  /\ lastUpdate' = p.lastUpdate /\ repeatUpdate' = p.repeatUpdate
  /\ pollIssued' = p.pollIssued /\ lateResolve' = p.lateResolve

(* The render without the isEnabled test of line 85. *)
Shown_NoGate(p) == p.rLatest

(* What the component renders (line 85): the caption on screen. *)
Shown(p) == IF p.pEnabled THEN p.rLatest ELSE NoCaption

(* apiService.getRecentTranscriptions(visitId, 10): the newest utterance   *)
(* of the last ten seconds, none when there was none.                      *)
Newest(p) == IF p.recentEmpty THEN NoCaption ELSE p.utterCount

(* setLatestTranscription(null) *)
ClearLatest(p) ==
  [p EXCEPT !.latest = NoCaption, !.pDirty = (p.rLatest # NoCaption),
            !.lastUpdate = NoCaption]

(* setLatestTranscription(newest) *)
SetLatest(p, id) ==
  [p EXCEPT !.latest = id, !.pDirty = TRUE, !.lastUpdate = id,
            !.repeatUpdate = @ \/ (p.lastUpdate = id)]

(* fetchRecentTranscriptions up to its await: the request leaves with the  *)
(* latestTranscription of the render that created the function.            *)
StartFetch(p) ==
  [p EXCEPT !.inflight = Append(@, [closure |-> p.rLatest, newest |-> Newest(p)]),
            !.pollIssued = TRUE]

(* fetchRecentTranscriptions after its await, lines 48-63. *)
FetchResolved(p, f) ==
  IF f.newest # NoCaption /\ (f.closure = NoCaption \/ f.newest # f.closure)
  THEN [SetLatest(p, f.newest) EXCEPT !.hideTimer = TRUE]
  ELSE p

(* The callback of the setTimeout of line 59. *)
HideTimeout(p) == ClearLatest(p)

(* Cleanup of the effect, lines 75-82. *)
PanelCleanup(p) == [p EXCEPT !.intervalOn = FALSE, !.hideTimer = FALSE]

(* Body of the effect, lines 29-73. *)
PanelEffect(p) ==
  IF ~p.pEnabled
  THEN [ClearLatest(p) EXCEPT !.intervalOn = FALSE, !.hideTimer = FALSE]
  ELSE [StartFetch(p) EXCEPT !.intervalOn = TRUE]

(* One render with prop en.  The effect set up by an enabled render has a  *)
(* cleanup; the disabled branch returns none.                              *)
PanelRender(p, en) ==
  LET deps == en # p.pEnabled \/ p.pDirty
      p1 == IF deps /\ p.pEnabled THEN PanelCleanup(p) ELSE p
      p2 == [p1 EXCEPT !.pEnabled = en, !.rLatest = p.latest, !.pDirty = FALSE,
                       !.superseded =
                          IF /\ p.pEnabled /\ en /\ p.rLatest # NoCaption
                             /\ p.latest # NoCaption /\ p.latest # p.rLatest
                          THEN @ \cup {p.rLatest} ELSE @]
  IN IF deps THEN PanelEffect(p2) ELSE p2

Still(p) == [p EXCEPT !.pollIssued = FALSE, !.lateResolve = FALSE]

PanelMount ==
  /\ panelPhase = "mounting"
  /\ \E en \in BOOLEAN :
        CommitPanel([PanelEffect([Still(Panel) EXCEPT !.pEnabled = en])
                       EXCEPT !.panelPhase = "mounted"])

PanelStateRender ==
  /\ panelPhase = "mounted" /\ pDirty
  /\ pEnabled => Len(inflight) < MaxInFlight
  /\ CommitPanel(PanelRender(Still(Panel), pEnabled))

PanelToggle ==
  /\ panelPhase = "mounted"
  /\ ~pEnabled => Len(inflight) < MaxInFlight
  /\ CommitPanel(PanelRender(Still(Panel), ~pEnabled))

(* setInterval(fetchRecentTranscriptions, 1000) fires. *)
IntervalTick ==
  /\ intervalOn /\ Len(inflight) < MaxInFlight
  /\ CommitPanel(StartFetch(Still(Panel)))

FetchResolve ==
  \E k \in 1..Len(inflight) :
     LET p == [Still(Panel) EXCEPT !.inflight = RemoveAt(@, k),
                                   !.lateResolve = ~pEnabled]
     IN CommitPanel(FetchResolved(p, inflight[k]))

(* getRecentTranscriptions rejects: caught at line 64. *)
FetchFail ==
  \E k \in 1..Len(inflight) :
     CommitPanel([Still(Panel) EXCEPT !.inflight = RemoveAt(@, k)])

HideTimerFire ==
  /\ hideTimer
  /\ CommitPanel(HideTimeout([Still(Panel) EXCEPT !.hideTimer = FALSE]))

(* Somebody speaks: the backend stores a new utterance. *)
NewUtterance ==
  /\ utterCount < MaxUtter
  /\ CommitPanel([Still(Panel) EXCEPT !.utterCount = @ + 1, !.recentEmpty = FALSE])

(* Ten seconds without an utterance: the recent list is empty. *)
RecentExpires ==
  /\ ~recentEmpty
  /\ CommitPanel([Still(Panel) EXCEPT !.recentEmpty = TRUE])

InitPanel ==
  /\ pEnabled = FALSE /\ latest = NoCaption /\ rLatest = NoCaption
  /\ pDirty = FALSE /\ intervalOn = FALSE /\ hideTimer = FALSE
  /\ inflight = <<>> /\ panelPhase = "mounting"
  /\ utterCount = 0 /\ recentEmpty = TRUE
  /\ superseded = {} /\ lastUpdate = NoCaption /\ repeatUpdate = FALSE
  /\ pollIssued = FALSE /\ lateResolve = FALSE


(* ================== VideoCall: attaching remote tracks ================= *)
(* A remote track is the pair of its participant and its kind (one audio   *)
(* and one video publication per participant); a participant that joins    *)
(* again is a new participant with new track SIDs.                         *)

MaxRemotes == 2

Remotes == 1..MaxRemotes
RemoteTracks == Remotes \X TrackKinds

VARIABLES
  parts, rParts, subscribed, attachCount, attachedTracksRef, listening,
  attachPhase

attachVars == <<parts, rParts, subscribed, attachCount, attachedTracksRef,
                listening, attachPhase>>

Stage ==
  [parts |-> parts, rParts |-> rParts, subscribed |-> subscribed,
   attachCount |-> attachCount, attachedTracksRef |-> attachedTracksRef,
   listening |-> listening, attachPhase |-> attachPhase]

CommitStage(a) ==
  /\ parts' = a.parts /\ rParts' = a.rParts /\ subscribed' = a.subscribed
  /\ attachCount' = a.attachCount
  /\ attachedTracksRef' = a.attachedTracksRef
  /\ listening' = a.listening /\ attachPhase' = a.attachPhase

(* track.attach(element) / track.attach(): one more attachment of the      *)
(* track since its last detach.                                            *)
TrackAttach(a, tr) == [a EXCEPT !.attachCount[tr] = Bump(@)]

(* The effect's handler of 'trackSubscribed', lines 631-641. *)
HandleTrackSubscribed(a, tr) == TrackAttach(a, tr)

(* The effect's handler of 'trackUnsubscribed', lines 643-652. *)
HandleTrackUnsubscribed(a, tr) ==
  [a EXCEPT !.attachCount[tr] = 0,
            !.attachedTracksRef = {x \in @ : x[1] # tr[1]}]

(* Lines 599-611 (video) and 614-627 (audio) for one publication. *)
AttachExisting(a, tr) ==
  IF a.subscribed[tr] /\ tr \notin a.attachedTracksRef
  THEN [TrackAttach(a, tr) EXCEPT !.attachedTracksRef = @ \cup {tr}]
  ELSE a

RECURSIVE AttachAll(_, _)
AttachAll(a, trs) ==
  IF trs = {} THEN a
  ELSE LET tr == CHOOSE x \in trs : TRUE
       IN AttachAll(AttachExisting(a, tr), trs \ {tr})

(* Body of the effect, lines 588-656, for the rendered participants. *)
AttachEffect(a) ==
  [AttachAll(a, {tr \in RemoteTracks : tr[1] \in a.rParts})
     EXCEPT !.listening = @ \cup a.rParts]

(* Cleanup of the effect, lines 658-663. *)
AttachCleanup(a) == [a EXCEPT !.listening = @ \ a.rParts]

(* Re-render after setParticipants: deps [participants]. *)
AttachRender(a) ==
  IF a.parts = a.rParts THEN a
  ELSE AttachEffect([AttachCleanup(a) EXCEPT !.rParts = a.parts])

(* ------------------ VideoTrackMonitor (avatar overlay) ----------------- *)
(* Every rendered participant has one monitor: VideoTrackMonitor for       *)
(* participants[0], VideoTrackMonitorThumbnail for the others; both have   *)
(* the same effect.  order is the participants list, rLead the rendered    *)
(* participants[0]; videoOn is isEnabled of the participant's video track; *)
(* watchSubs are the participants on which the monitor's trackSubscribed   *)
(* and trackUnsubscribed listeners are registered, watchToggles those with *)
(* its trackEnabled and trackDisabled listeners.                           *)

NoRemote == 0

VARIABLES order, rLead, videoOn, hasVideoTrack, watchSubs, watchToggles

monitorVars == <<order, rLead, videoOn, hasVideoTrack, watchSubs, watchToggles>>

Watch ==
  [order |-> order, rLead |-> rLead, videoOn |-> videoOn,
   hasVideoTrack |-> hasVideoTrack, watchSubs |-> watchSubs,
   watchToggles |-> watchToggles]

CommitWatch(x) ==
  /\ order' = x.order /\ rLead' = x.rLead /\ videoOn' = x.videoOn
  /\ hasVideoTrack' = x.hasVideoTrack
  /\ watchSubs' = x.watchSubs /\ watchToggles' = x.watchToggles

Lead(x) == IF x.order = <<>> THEN NoRemote ELSE Head(x.order)

(* checkVideoTracks, lines 391-399: subs is isSubscribed of the tracks. *)
CheckVideoTracks(x, subs, q) ==
  [x EXCEPT !.hasVideoTrack[q] = subs[<<q, "video">>] /\ x.videoOn[q]]

RECURSIVE CheckAll(_, _, _)
CheckAll(x, subs, qs) ==
  IF qs = {} THEN x
  ELSE LET q == CHOOSE r \in qs : TRUE
       IN CheckAll(CheckVideoTracks(x, subs, q), subs, qs \ {q})

(* One commit after the participants list changed, a holding the rendered  *)
(* list (rParts) and the new one (parts).  All cleanups run first: those   *)
(* of the monitors that go away or get another participant (408-413) and   *)
(* the one of the attach effect (658-663), whose removeAllListeners takes   *)
(* every trackSubscribed and trackUnsubscribed listener off the rendered    *)
(* participants, the monitors' included.  Then the effect bodies run: only  *)
(* the monitors that are new or got another participant register again      *)
(* (403-406), deps [participant].                                           *)
MonitorRender(x, a) ==
  LET removed == a.rParts \ a.parts
      stay == a.rParts \cap a.parts
      switched == {q \in stay : (q = x.rLead) # (q = Lead(x))}
      fresh == (a.parts \ a.rParts) \cup switched
      x1 == [x EXCEPT !.watchSubs = fresh,
                      !.watchToggles = (@ \ removed) \cup fresh,
                      !.hasVideoTrack = [q \in Remotes |->
                                           IF q \in removed THEN FALSE ELSE @[q]],
                      !.rLead = Lead(x)]
  IN CheckAll(x1, a.subscribed, fresh)

(* 'trackSubscribed' or 'trackUnsubscribed' of participant q is delivered   *)
(* to the monitor's listener, if it is still registered.                    *)
OnSubscriptionEvent(x, subs, q) ==
  IF q \in x.watchSubs THEN CheckVideoTracks(x, subs, q) ELSE x

(* 'trackEnabled' or 'trackDisabled' of participant q. *)
OnToggleEvent(x, subs, q, on) ==
  LET x1 == [x EXCEPT !.videoOn[q] = on]
  IN IF q \in x.watchToggles THEN CheckVideoTracks(x1, subs, q) ELSE x1

StageMount ==
  /\ attachPhase = "mounting"
  /\ CommitStage([AttachEffect(Stage) EXCEPT !.attachPhase = "mounted"])
  /\ CommitWatch(Watch)

StageRender ==
  /\ attachPhase = "mounted" /\ parts # rParts
  /\ CommitStage(AttachRender(Stage))
  /\ CommitWatch(MonitorRender(Watch, Stage))

(* 'participantConnected': setParticipants([...prev, participant]). *)
ParticipantJoins ==
  \E q \in Remotes \ (parts \cup rParts) :
     /\ attachPhase = "mounted"
     /\ CommitStage([Stage EXCEPT
           !.parts = @ \cup {q},
           !.attachCount = [tr \in RemoteTracks |-> IF tr[1] = q THEN 0 ELSE @[tr]],
           !.attachedTracksRef = {x \in @ : x[1] # q}])
     /\ CommitWatch([Watch EXCEPT !.order = Append(@, q), !.videoOn[q] = TRUE])

(* 'participantDisconnected', after the participant's tracks were          *)
(* unsubscribed.                                                           *)
ParticipantLeaves ==
  \E q \in parts :
     /\ \A k \in TrackKinds : ~subscribed[<<q, k>>]
     /\ CommitStage([Stage EXCEPT !.parts = @ \ {q}])
     /\ CommitWatch([Watch EXCEPT !.order = Without(@, q), !.videoOn[q] = FALSE])

TrackSubscribed ==
  \E tr \in RemoteTracks :
     /\ tr[1] \in parts /\ ~subscribed[tr]
     /\ LET a == [Stage EXCEPT !.subscribed[tr] = TRUE]
        IN /\ CommitStage(IF tr[1] \in listening THEN HandleTrackSubscribed(a, tr) ELSE a)
           /\ CommitWatch(OnSubscriptionEvent(Watch, a.subscribed, tr[1]))

TrackUnsubscribed ==
  \E tr \in RemoteTracks :
     /\ subscribed[tr]
     /\ LET a == [Stage EXCEPT !.subscribed[tr] = FALSE]
        IN /\ CommitStage(IF tr[1] \in listening THEN HandleTrackUnsubscribed(a, tr) ELSE a)
           /\ CommitWatch(OnSubscriptionEvent(Watch, a.subscribed, tr[1]))

(* The remote participant switches the camera off or on. *)
TrackToggled ==
  \E q \in parts :
     /\ CommitWatch(OnToggleEvent(Watch, subscribed, q, ~videoOn[q]))
     /\ UNCHANGED attachVars

InitStage ==
  /\ parts = {} /\ rParts = {}
  /\ subscribed = [tr \in RemoteTracks |-> FALSE]
  /\ attachCount = [tr \in RemoteTracks |-> 0]
  /\ attachedTracksRef = {} /\ listening = {}
  /\ attachPhase = "mounting"

InitWatch ==
  /\ order = <<>> /\ rLead = NoRemote
  /\ videoOn = [q \in Remotes |-> FALSE]
  /\ hasVideoTrack = [q \in Remotes |-> FALSE]
  /\ watchSubs = {} /\ watchToggles = {}

(* ===================== VideoCall: participant names ==================== *)
(* A string is the sequence of its characters; the words provider and      *)
(* patient and the labels the function returns are single elements, since  *)
(* no delimiter lies inside them.                                          *)

MaxId == 2
MaxName == 4

IdChars == {"x"}
NameChars == {"D", "-", ":"}
UserTypes == {"provider", "patient"}
Strings(chars, lo, hi) == UNION {[1..n -> chars] : n \in lo..hi}

(* "userType-userId-visitId" and "userType-userId-visitId::DisplayName" *)
Identity(userType, userId, visitId, suffix, displayName) ==
  <<userType, "-">> \o userId \o <<"-">> \o visitId
    \o (IF suffix THEN <<":", ":">> \o displayName ELSE <<>>)

(* String.prototype.indexOf: the first position of d in s, 0 for none. *)
IndexOf(s, d) ==
  LET hits == {i \in 1..(Len(s) - Len(d) + 1) : SubSeq(s, i, i + Len(d) - 1) = d}
  IN IF hits = {} THEN 0 ELSE CHOOSE i \in hits : \A j \in hits : i <= j

(* String.prototype.split with a non-empty separator. *)
RECURSIVE Split(_, _)
Split(s, d) ==
  LET i == IndexOf(s, d)
  IN IF i = 0 THEN <<s>>
     ELSE <<SubSeq(s, 1, i - 1)>> \o Split(SubSeq(s, i + Len(d), Len(s)), d)

getDisplayName(identity) ==
  LET nameParts == Split(identity, <<":", ":">>)
      typeParts == Split(identity, <<"-">>)
  IN IF /\ IndexOf(identity, <<":", ":">>) # 0
        /\ Len(nameParts) = 2 /\ nameParts[2] # <<>>
     THEN nameParts[2]
     ELSE IF Len(typeParts) >= 1 /\ typeParts[1] = <<"provider">> THEN <<"Provider">>
     ELSE IF Len(typeParts) >= 1 /\ typeParts[1] = <<"patient">> THEN <<"Patient">>
     ELSE identity

(* cachedName is participantNames.get(sid): Null for undefined. *)
getParticipantName(cachedName, identity) ==
  IF cachedName # Null /\ cachedName # <<>> THEN cachedName
  ELSE getDisplayName(identity)

VARIABLES shown

NoName == [userType |-> "none"]

(* A remote participant is rendered: its tile shows getParticipantName.    *)
(* participantNames is never written, so no name is cached.                *)
ShowParticipant ==
  \E userType \in UserTypes, userId \in Strings(IdChars, 1, MaxId),
     visitId \in Strings(IdChars, 1, MaxId), suffix \in BOOLEAN,
     displayName \in Strings(NameChars, 0, MaxName) :
     /\ ~suffix => displayName = <<>>
     /\ shown' = [userType |-> userType, suffix |-> suffix,
                  displayName |-> displayName,
                  name |-> getParticipantName(Null,
                             Identity(userType, userId, visitId, suffix, displayName))]

InitNames == shown = NoName

(* ================== VideoCall: the transcription toggle ================ *)
(* isSpeechSupported is the isSupported that useSpeechRecognition returned *)
(* at the last render, isConnected the one useVideoCall returned; every    *)
(* enableTranscription / disableTranscription request in flight is one     *)
(* entry of toggleReqs.                                                    *)

MaxToggleReqs == 2

VARIABLES
  isTranscriptionEnabled, isTogglingTranscription,
  rIsTranscriptionEnabled, rIsTogglingTranscription, toggleReqs,
  (* history, read only by the properties *)
  toggleOp

toggleVars == <<isTranscriptionEnabled, isTogglingTranscription,
                rIsTranscriptionEnabled, rIsTogglingTranscription,
                toggleReqs, toggleOp>>

Controls ==
  [isTranscriptionEnabled |-> isTranscriptionEnabled,
   isTogglingTranscription |-> isTogglingTranscription,
   rIsTranscriptionEnabled |-> rIsTranscriptionEnabled,
   rIsTogglingTranscription |-> rIsTogglingTranscription,
   toggleReqs |-> toggleReqs, toggleOp |-> toggleOp]

CommitControls(v) ==
  /\ isTranscriptionEnabled' = v.isTranscriptionEnabled
  /\ isTogglingTranscription' = v.isTogglingTranscription
  /\ rIsTranscriptionEnabled' = v.rIsTranscriptionEnabled
  /\ rIsTogglingTranscription' = v.rIsTogglingTranscription
  /\ toggleReqs' = v.toggleReqs /\ toggleOp' = v.toggleOp

(* handleToggleTranscription up to its await. *)
HandleToggleTranscription(v, isSpeechSupported) ==
  IF v.rIsTogglingTranscription THEN [v EXCEPT !.toggleOp = "busy"]
  ELSE IF ~isSpeechSupported THEN [v EXCEPT !.toggleOp = "unsupported"]
  ELSE [v EXCEPT !.isTogglingTranscription = TRUE,
                 !.toggleReqs = Append(@, IF v.rIsTranscriptionEnabled
                                          THEN "disable" ELSE "enable"),
                 !.toggleOp = "requested"]

(* handleToggleTranscription after its await: the request resolved (ok) or *)
(* rejected, then the finally block.                                       *)
ToggleSettled(v, k, ok) ==
  LET v1 == [v EXCEPT !.toggleReqs = RemoveAt(@, k),
                      !.toggleOp = IF ok THEN "resolved" ELSE "rejected"]
      v2 == IF ok THEN [v1 EXCEPT !.isTranscriptionEnabled = (v.toggleReqs[k] = "enable")]
            ELSE v1
  IN [v2 EXCEPT !.isTogglingTranscription = FALSE]

(* The button of line 894: disabled while toggling or not connected. *)
TranscriptionClick ==
  /\ mounted = "mounted" /\ spPhase = "mounted"
  /\ ~rIsTogglingTranscription /\ rRoom # NoRoom
  /\ Len(toggleReqs) < MaxToggleReqs
  /\ CommitControls(HandleToggleTranscription(Controls, rIsSupported))

ToggleRequestResolve ==
  \E k \in 1..Len(toggleReqs) : CommitControls(ToggleSettled(Controls, k, TRUE))

ToggleRequestReject ==
  \E k \in 1..Len(toggleReqs) : CommitControls(ToggleSettled(Controls, k, FALSE))

(* VideoCall renders after one of its own states or a state of the speech  *)
(* hook changed: the hook gets isEnabled = isTranscriptionEnabled.         *)
VideoCallRender ==
  /\ spPhase = "mounted"
  /\ \/ isTranscriptionEnabled # rIsTranscriptionEnabled
     \/ isTogglingTranscription # rIsTogglingTranscription
     \/ isSupported # rIsSupported \/ isListening # rIsListening
  /\ CommitControls([Controls EXCEPT
         !.rIsTranscriptionEnabled = isTranscriptionEnabled,
         !.rIsTogglingTranscription = isTogglingTranscription,
         !.toggleOp = "none"])
  /\ CommitHook(SpeechRender(Calm(Hook), isTranscriptionEnabled, speakerName))

InitControls ==
  /\ isTranscriptionEnabled = FALSE /\ isTogglingTranscription = FALSE
  /\ rIsTranscriptionEnabled = FALSE /\ rIsTogglingTranscription = FALSE
  /\ toggleReqs = <<>> /\ toggleOp = "none"

vars == <<callVars, mediaVars, speechVars, panelVars, attachVars, shown,
          toggleVars,
            visitVars,
            requestVars,
            leaveVars,
            monitorVars>>

offCall == <<speechVars, panelVars, attachVars, shown, toggleVars,
            visitVars,
            requestVars,
            leaveVars,
            monitorVars>>
offSpeech == <<callVars, mediaVars, panelVars, attachVars, shown, toggleVars,
            visitVars,
            requestVars,
            leaveVars,
            monitorVars>>
offPanel == <<callVars, mediaVars, speechVars, attachVars, shown, toggleVars,
            visitVars,
            requestVars,
            leaveVars,
            monitorVars>>
offStage == <<callVars, mediaVars, speechVars, panelVars, shown, toggleVars,
            visitVars,
            requestVars,
            leaveVars>>
offNames == <<callVars, mediaVars, speechVars, panelVars, attachVars, toggleVars,
            visitVars,
            requestVars,
            leaveVars,
            monitorVars>>
offControls == <<callVars, mediaVars, speechVars, panelVars, attachVars, shown,
            visitVars,
            requestVars,
            leaveVars,
            monitorVars>>
offVisit == <<callVars, mediaVars, speechVars, panelVars, attachVars, shown,
            toggleVars,
            requestVars,
            leaveVars,
            monitorVars>>
offRequest == <<callVars, mediaVars, speechVars, panelVars, attachVars, shown,
            toggleVars, visitVars,
            leaveVars,
            monitorVars>>
offLeave == <<speechVars, panelVars, attachVars, shown, toggleVars, visitVars,
            requestVars,
            monitorVars>>
offConnect == <<speechVars, panelVars, attachVars, shown, toggleVars,
            requestVars,
            leaveVars,
            monitorVars>>
offVideoCall == <<callVars, mediaVars, panelVars, attachVars, shown,
            visitVars,
            requestVars,
            leaveVars,
            monitorVars>>

Init ==
  /\ InitCall /\ InitMedia /\ InitSpeech /\ InitPanel /\ InitStage /\ InitNames
  /\ InitControls /\ InitVisit /\ InitRequest /\ InitWatch
  /\ InitLeave

NextCall ==
  \/ Mount /\ UNCHANGED offCall
  \/ StateRender /\ UNCHANGED offCall
  \/ ParentRender /\ UNCHANGED offCall
  \/ Unmount /\ UNCHANGED offCall
  \/ ConnectToRoomCall /\ UNCHANGED offCall
  \/ DisconnectCall /\ UNCHANGED offCall
  \/ ConnectResolve /\ UNCHANGED offConnect
  \/ ConnectReject /\ UNCHANGED offCall
  \/ TransportDrop /\ UNCHANGED offCall
  \/ RedeliverDisconnected /\ UNCHANGED offCall
  \/ CleanupTimerFire /\ UNCHANGED offCall
  \/ Tick /\ UNCHANGED offCall

(* The session as the media controls see it: the hook is mounted, its     *)
(* connect settles, it renders, the session ends, and the toggles run.     *)
NextMedia ==
  \/ Mount /\ UNCHANGED offCall
  \/ StateRender /\ UNCHANGED offCall
  \/ Unmount /\ UNCHANGED offCall
  \/ DisconnectCall /\ UNCHANGED offCall
  \/ ConnectResolve /\ UNCHANGED offConnect
  \/ ConnectReject /\ UNCHANGED offCall
  \/ TransportDrop /\ UNCHANGED offCall
  \/ ToggleVideoCall /\ UNCHANGED offCall
  \/ ToggleAudioCall /\ UNCHANGED offCall
  \/ ToggleScreenShareCall /\ UNCHANGED offCall
  \/ CaptureResolve /\ UNCHANGED offCall
  \/ CaptureReject /\ UNCHANGED offCall
  \/ PublishResolve /\ UNCHANGED offCall
  \/ PublishReject /\ UNCHANGED offCall
  \/ TrackEnded /\ UNCHANGED offCall

(* The camera button and the screen share, with the pairs of toggleVideo   *)
(* calls counted.                                                          *)
NextCamera ==
  \/ Mount /\ UNCHANGED offCall
  \/ StateRender /\ UNCHANGED offCall
  \/ ConnectResolve /\ UNCHANGED offConnect
  \/ DisconnectCall /\ UNCHANGED offCall
  \/ ToggleVideoCounted /\ UNCHANGED offCall
  \/ ToggleScreenShareCall /\ UNCHANGED offCall
  \/ CaptureResolve /\ UNCHANGED offCall
  \/ CaptureReject /\ UNCHANGED offCall
  \/ PublishResolve /\ UNCHANGED offCall
  \/ PublishReject /\ UNCHANGED offCall
  \/ TrackEnded /\ UNCHANGED offCall

NextSpeech ==
  \/ SpeechMount /\ UNCHANGED offSpeech
  \/ SpeechStateRender /\ UNCHANGED offSpeech
  \/ ToggleEnabled /\ UNCHANGED offSpeech
  \/ ChangeSpeaker /\ UNCHANGED offSpeech
  \/ EngineStarted /\ UNCHANGED offSpeech
  \/ EngineError /\ UNCHANGED offSpeech
  \/ EngineEnds /\ UNCHANGED offSpeech
  \/ EngineStopped /\ UNCHANGED offSpeech
  \/ RestartTimerFire /\ UNCHANGED offSpeech
  \/ EngineResult /\ UNCHANGED offSpeech
  \/ SaveSettle /\ UNCHANGED offSpeech

NextPanel ==
  \/ PanelMount /\ UNCHANGED offPanel
  \/ PanelStateRender /\ UNCHANGED offPanel
  \/ PanelToggle /\ UNCHANGED offPanel
  \/ IntervalTick /\ UNCHANGED offPanel
  \/ FetchResolve /\ UNCHANGED offPanel
  \/ FetchFail /\ UNCHANGED offPanel
  \/ HideTimerFire /\ UNCHANGED offPanel
  \/ NewUtterance /\ UNCHANGED offPanel
  \/ RecentExpires /\ UNCHANGED offPanel

NextStage ==
  \/ StageMount /\ UNCHANGED offStage
  \/ StageRender /\ UNCHANGED offStage
  \/ ParticipantJoins /\ UNCHANGED offStage
  \/ ParticipantLeaves /\ UNCHANGED offStage
  \/ TrackSubscribed /\ UNCHANGED offStage
  \/ TrackUnsubscribed /\ UNCHANGED offStage

(* The same, with the remote cameras switched off and on. *)
NextWatch ==
  \/ NextStage
  \/ TrackToggled /\ UNCHANGED offStage

Spec == Init /\ [][NextCall]_vars

SpecMedia == Init /\ [][NextMedia]_vars

SpecCamera == Init /\ [][NextCamera]_vars

SpecStage == Init /\ [][NextStage]_vars

SpecWatch == Init /\ [][NextWatch]_vars

(* The call connects, renders and ends; the speech hook is mounted; the    *)
(* transcription button is pressed and its requests settle.                *)
NextControls ==
  \/ Mount /\ UNCHANGED offCall
  \/ StateRender /\ UNCHANGED offCall
  \/ ConnectResolve /\ UNCHANGED offConnect
  \/ TransportDrop /\ UNCHANGED offCall
  \/ DisconnectCall /\ UNCHANGED offCall
  \/ SpeechMount /\ UNCHANGED offSpeech
  \/ TranscriptionClick /\ UNCHANGED offControls
  \/ ToggleRequestResolve /\ UNCHANGED offControls
  \/ ToggleRequestReject /\ UNCHANGED offControls
  \/ VideoCallRender /\ UNCHANGED offVideoCall

SpecControls == Init /\ [][NextControls]_vars

(* A visit is joined from the video page or the guest page, the call       *)
(* connects or fails to, and ends.                                         *)
NextVisit ==
  \/ JoinCall /\ UNCHANGED offVisit
  \/ TokenResolve /\ UNCHANGED offVisit
  \/ TokenReject /\ UNCHANGED offVisit
  \/ EarlyStartSettle /\ UNCHANGED offVisit
  \/ PageMount /\ UNCHANGED offCall
  \/ StateRender /\ UNCHANGED offCall
  \/ ConnectResolve /\ UNCHANGED offConnect
  \/ ConnectReject /\ UNCHANGED offCall
  \/ TransportDrop /\ UNCHANGED offCall
  \/ DisconnectCall /\ UNCHANGED offCall
  \/ CleanupTimerFire /\ UNCHANGED offCall
  \/ Tick /\ UNCHANGED offCall

SpecVisit == Init /\ [][NextVisit]_vars

(* The hook as VideoCall uses it (connectToRoom is not called from         *)
(* outside), with remote participants joining and leaving.                 *)
NextRoster ==
  \/ Mount /\ UNCHANGED offCall
  \/ StateRender /\ UNCHANGED offCall
  \/ ParentRender /\ UNCHANGED offCall
  \/ DisconnectCall /\ UNCHANGED offCall
  \/ ConnectResolve /\ UNCHANGED offConnect
  \/ ConnectReject /\ UNCHANGED offCall
  \/ TransportDrop /\ UNCHANGED offCall
  \/ ParticipantConnected /\ UNCHANGED offCall
  \/ ParticipantDisconnected /\ UNCHANGED offCall
  \/ CleanupTimerFire /\ UNCHANGED offCall
  \/ Tick /\ UNCHANGED offCall

SpecRoster == Init /\ [][NextRoster]_vars

(* Requests for every pathname and cookie of the bounded sets. *)
NextRequest == HandleRequest /\ UNCHANGED offRequest

SpecRequest == Init /\ [][NextRequest]_vars

(* A call that the user leaves with the button, or that drops. *)
NextLeave ==
  \/ Mount /\ UNCHANGED offCall
  \/ StateRender /\ UNCHANGED offCall
  \/ Unmount /\ UNCHANGED offCall
  \/ ConnectResolve /\ UNCHANGED offConnect
  \/ ConnectReject /\ UNCHANGED offCall
  \/ TransportDrop /\ UNCHANGED offCall
  \/ HandleDisconnect /\ UNCHANGED offLeave
  \/ CleanupTimerFire /\ UNCHANGED offCall
  \/ Tick /\ UNCHANGED offCall

SpecLeave == Init /\ [][NextLeave]_vars

(* Screen sharing on one connected session, with invocations of            *)
(* toggleScreenShare that overlap.                                         *)
NextShare ==
  \/ Mount /\ UNCHANGED offCall
  \/ StateRender /\ UNCHANGED offCall
  \/ ConnectResolve /\ UNCHANGED offConnect
  \/ ToggleScreenShareCall /\ UNCHANGED offCall
  \/ ToggleScreenShareAgain /\ UNCHANGED offCall
  \/ CaptureResolve /\ UNCHANGED offCall
  \/ CaptureReject /\ UNCHANGED offCall
  \/ PublishResolve /\ UNCHANGED offCall
  \/ PublishReject /\ UNCHANGED offCall
  \/ TrackEnded /\ UNCHANGED offCall

SpecShare == Init /\ [][NextShare]_vars

(* The call is ended by disconnect(), whose track operations may throw. *)
NextHangup ==
  \/ Mount /\ UNCHANGED offCall
  \/ StateRender /\ UNCHANGED offCall
  \/ Unmount /\ UNCHANGED offCall
  \/ ConnectResolve /\ UNCHANGED offConnect
  \/ ConnectReject /\ UNCHANGED offCall
  \/ TransportDrop /\ UNCHANGED offCall
  \/ DisconnectCall /\ UNCHANGED offCall
  \/ DisconnectCallThrows /\ UNCHANGED offCall
  \/ CleanupTimerFire /\ UNCHANGED offCall
  \/ Tick /\ UNCHANGED offCall

SpecHangup == Init /\ [][NextHangup]_vars

NextNames == ShowParticipant /\ UNCHANGED offNames

SpecNames == Init /\ [][NextNames]_vars

SpecPanel == Init /\ [][NextPanel]_vars

(* React flushes a scheduled render, a due timer fires, a request settles. *)
PanelFairness ==
  /\ WF_vars(PanelMount /\ UNCHANGED offPanel)
  /\ WF_vars(PanelStateRender /\ UNCHANGED offPanel)
  /\ WF_vars(HideTimerFire /\ UNCHANGED offPanel)
  /\ WF_vars(FetchResolve /\ UNCHANGED offPanel)

SpecPanelFair == SpecPanel /\ PanelFairness

SpecSpeech == Init /\ [][NextSpeech]_vars

(* React flushes a scheduled render, a due timer fires, the engine reports *)
(* 'start' after start() and 'end' after stop() or an error, a request     *)
(* settles.                                                                *)
SpeechFairness ==
  /\ WF_vars(SpeechMount /\ UNCHANGED offSpeech)
  /\ WF_vars(SpeechStateRender /\ UNCHANGED offSpeech)
  /\ WF_vars(RestartTimerFire /\ UNCHANGED offSpeech)
  /\ WF_vars(EngineStarted /\ UNCHANGED offSpeech)
  /\ WF_vars(EngineStopped /\ UNCHANGED offSpeech)
  /\ WF_vars(SaveSettle /\ UNCHANGED offSpeech)

SpecSpeechFair == SpecSpeech /\ SpeechFairness

(* ============================ useVideoCall claims ====================== *)

Live == {s \in Sessions : sess[s] \in {"pending", "connected"}}

(* C1: among the connectToRoom calls made less than CooldownMs after the   *)
(* last accepted attempt none reaches the transport: every cooldown window *)
(* holds at most one connect() call, hence at most one session.            *)
C1_SingleFlightInWindow == connectsInWindow <= 1

(* C1 witness: a call made inside the window of an accepted attempt passed *)
(* the other guards and was dropped by the cooldown test, the session of   *)
(* the accepted attempt being connected.                                   *)
C1_Witness ==
  /\ lastCall = "rejected_cooldown"
  /\ now - lastConnectAt < CooldownMs
  /\ connectsInWindow = 1
  /\ \E s \in Sessions : sess[s] = "connected"

(* C2: at most one transport session is in flight or connected. *)
C2_AtMostOneLiveSession == Cardinality(Live) <= 1

(* C3: once the latest connect attempt has failed and no session is left,  *)
(* the hook is idle and a connectToRoom call with a token and a room name, *)
(* made after the cooldown, is accepted whatever identifier it draws.      *)
AfterFailedAttempt ==
  /\ mounted = "mounted"
  /\ Live = {}
  /\ \E s \in Sessions : /\ sess[s] = "failed"
                         /\ \A u \in Sessions : u > s => sess[u] = "none"

C3_RetryAfterFailure ==
  AfterFailedAttempt =>
    /\ isConnecting = FALSE
    /\ room = NoRoom
    /\ (token # "" /\ roomName # "" /\ cRoom = NoRoom
        /\ now - lastConnectionAttemptRef >= CooldownMs)
         => \A id \in DrawIds :
               ConnectOutcome(World, id, cRoom) = "accepted"

(* C4: a session whose connect was outstanding when disconnect() was       *)
(* called or the component unmounted is never left connected, and none of  *)
(* its local tracks is left running.                                       *)
C4_AbandonedAttemptLeavesNoSession ==
  \A s \in Sessions :
     abandoned[s] => sess[s] # "connected" /\ liveTracks[s] = {}

C6_OnDisconnectExactlyOnce ==
  \A s \in Sessions : dropped[s] => onDisconnectCalls[s] = 1

(* ======================= useSpeechRecognition claims =================== *)

(* C7: a recognition result with isFinal = false is never submitted to     *)
(* saveTranscription; every submitted payload comes from a final result    *)
(* and carries is_final = true.                                            *)
C7_OnlyFinalResultsSaved == lastSaved # NoSave => lastSaved.is_final = TRUE

(* C7 witness: a result was submitted by a run of the loop that passed     *)
(* over an interim result first.                                           *)
C7_Witness == lastSaved # NoSave /\ skippedInterim

(* C8: after a 'not-allowed' error received while isEnabled is true, the   *)
(* hook does not start the engine again until isEnabled has gone to false  *)
(* (denied is cleared by the render that sees isEnabled = false).          *)
C8_NoRestartAfterDenial == denied => lastStart # "ok"

(* C9: whenever the current engine reports 'end' while isEnabled is true,  *)
(* then, unless isEnabled goes to false, the engine is eventually started  *)
(* again and isListening becomes true again.                               *)
C9_RestartAfterEnd ==
  (endReported /\ isEnabled)
     ~> (~isEnabled \/ (/\ isListening
                        /\ recognitionRef # NoEngine
                        /\ Active(engState[recognitionRef])))

(* C10: while isEnabled is false (from the render that disabled it until   *)
(* the render that enables it again) start() is never called, whatever     *)
(* isEnabled the handlers of the engine captured.                          *)
C10_NoStartWhileDisabled == (spPhase = "mounted" /\ ~isEnabled) => lastStart = "none"

(* C15: when saveTranscription is rejected, nothing else changes: the     *)
(* same invocation submits the next final result of its batch, no engine   *)
(* is stopped or started, isListening keeps its value, and no other        *)
(* invocation in flight is lost.                                           *)
C15_SaveFailureDoesNotStopCapture ==
  [][lastSettle' = "rejected" =>
       /\ isListening' = isListening /\ engState' = engState
       /\ recognitionRef' = recognitionRef /\ lastStart' = "none"
       /\ LET k == NextSubmitted(settledRest', 1)
          IN IF k = 0 THEN lastSaved' = NoSave /\ Len(jobs') = Len(jobs) - 1
             ELSE lastSaved' = Payload(settledRest'[k]) /\ Len(jobs') = Len(jobs)]_vars

(* C15 witness: a rejection after which the next final result of the same  *)
(* batch was submitted, in a run where a result event that came after an   *)
(* earlier rejection was processed and submitted too.                      *)
C15_Witness ==
  lastSettle = "rejected" /\ lastSaved # NoSave /\ saveFailed = "then submitted"

(* ========================= media control claims ======================== *)

(* C17: when the capture request of toggleScreenShare is rejected, the     *)
(* call ends with an error notification and changes nothing: the flag      *)
(* isScreenShared, the publications of the room, the running capture       *)
(* tracks and screenShareTrackRef are as before; with screen sharing off   *)
(* (flag false, no capture published, no reference held) they stay false,  *)
(* none and null.                                                          *)
C17_RejectedCaptureLeavesNoShare ==
  [][mediaOp' = "capture rejected" =>
       /\ lastToast' = "error"
       /\ isScreenShared' = isScreenShared
       /\ screenShareTrackRef' = screenShareTrackRef
       /\ published' = published
       /\ \A c \in Captures : /\ captures'[c].pub = captures[c].pub
                              /\ captures'[c].live = captures[c].live
       /\ (/\ ~isScreenShared /\ screenShareTrackRef = NoCapture
           /\ \A c \in Captures : ~captures[c].pub)
          => (/\ ~isScreenShared' /\ screenShareTrackRef' = NoCapture
              /\ \A c \in Captures : ~captures'[c].pub /\ ~captures'[c].live)]_vars

(* C17 witness: on a connected session with screen sharing off the capture *)
(* request has just been rejected.                                         *)
C17_Witness ==
  /\ mediaOp = "capture rejected" /\ lastToast = "error"
  /\ room # NoRoom /\ rRoom = room /\ sess[room] = "connected"
  /\ ~isScreenShared /\ screenShareTrackRef = NoCapture

(* C18: a pair of toggleVideo calls on the connected session, each made by *)
(* the callback of the latest render and with the same local video tracks  *)
(* published throughout, leaves isVideoEnabled and the enabled flag of     *)
(* every local video track as they were before the first call.             *)
C18_EvenTogglesRestore == evenBase.n = "even" => evenBase.restored

(* C20: a call of disconnect, toggleVideo, toggleAudio or toggleScreenShare *)
(* by a callback whose room is null changes no state of the hook, no ref,  *)
(* no session, no track and requests no capture.                           *)
C20_NoRoomNoOp ==
  [][(/\ rRoom = NoRoom
      /\ mediaOp' \in {"disconnect", "toggleVideo", "toggleAudio",
                       "toggleScreenShare"})
     => /\ UNCHANGED <<room, isConnected, participants, isConnecting>>
        /\ UNCHANGED <<isVideoEnabled, isAudioEnabled, isScreenShared>>
        /\ UNCHANGED <<isConnectingRef, connectionInstanceRef,
                       lastConnectionAttemptRef, isCleaningUpRef,
                       isDisconnectingRef, screenShareTrackRef>>
        /\ UNCHANGED <<sess, published, liveTracks, closures, trackStops,
                       trackEnabled, captures>>
        /\ lastToast' = "none"]_vars

(* C20 witness: the camera was switched off during a session that has      *)
(* ended; toggleVideo was then called with no room and the flag is still   *)
(* false.                                                                  *)
C20_Witness ==
  /\ mediaOp = "toggleVideo" /\ rRoom = NoRoom /\ room = NoRoom
  /\ \E s \in Sessions : sess[s] = "disconnected"
  /\ ~isVideoEnabled /\ ~rIsVideoEnabled

(* C27: whatever the interleaving of toggleScreenShare invocations, at     *)
(* most one screen-capture track is running, and every capture track that  *)
(* was acquired and not stopped is the one screenShareTrackRef refers to.  *)
C27_OneLiveCaptureAndReferenced ==
  /\ Cardinality({c \in Captures : captures[c].live}) <= 1
  /\ \A c \in Captures : captures[c].live => screenShareTrackRef = c

(* ========================= participant name claims ===================== *)

(* C19: for an identity userType-userId-visitId with or without a          *)
(* ::DisplayName suffix, the name shown is the DisplayName when the suffix *)
(* is there and not empty, and otherwise Provider or Patient by the user   *)
(* type.                                                                   *)
C19_DisplayNameOrRoleLabel ==
  shown # NoName =>
    shown.name = IF shown.suffix /\ shown.displayName # <<>>
                 THEN shown.displayName
                 ELSE IF shown.userType = "provider" THEN <<"Provider">>
                 ELSE <<"Patient">>

(* ========================== participant claims ========================= *)

(* C23: after every participant-joined or participant-left event of a      *)
(* connected session the participants list is the session's initial list   *)
(* plus the joined minus the left, in delivery order; after a session was  *)
(* disconnected the list is empty.                                         *)
C23_ParticipantsFollowEvents ==
  [][\A s \in Sessions :
       /\ (sess[s] = "connected" /\ sess'[s] = "connected"
             /\ roster'[s] # roster[s]) => participants' = roster'[s]
       /\ (sess[s] = "connected" /\ sess'[s] = "disconnected")
             => participants' = <<>>]_vars

(* C24: once disconnect() has run for a session, no render of the hook     *)
(* starts a transport connect again, whatever the token, the room state or *)
(* the time that passed.                                                   *)
C24_NoAutoConnectAfterUserDisconnect ==
  [][(\E s \in Sessions : disconnectCalls[s] > 0)
        => \A s \in Sessions : sess'[s] = "pending" => sess[s] = "pending"]_vars

(* The user left, the hook rendered with room = null and a token, nothing  *)
(* is connecting and the cooldown is over: only the flag holds the effect  *)
(* back.                                                                   *)
C24_Witness ==
  /\ \E s \in Sessions : disconnectCalls[s] > 0 /\ sess[s] = "disconnected"
  /\ isDisconnectingRef /\ mounted = "mounted"
  /\ room = NoRoom /\ rRoom = NoRoom /\ ~rIsConnecting /\ ~isConnectingRef
  /\ token # "" /\ roomName # ""
  /\ now - lastConnectionAttemptRef >= CooldownMs

(* =========================== middleware claims ========================= *)

(* C25: a request for a path under /dashboard, /patients, /providers,      *)
(* /visits or /video that carries no auth_token cookie is answered with a  *)
(* redirect to /auth/login whose redirect parameter is the requested path, *)
(* never passed through.                                                   *)
C25_ProtectedWithoutTokenRedirects ==
  (/\ response # NoResponse
   /\ \E route \in protectedRoutes : StartsWith(pathname, route)
   /\ authToken = NoCookie)
  => response = RedirectToLogin(pathname)

(* C26: a leave by the user, VideoCall.handleDisconnect on a connected     *)
(* session, invokes the parent's onDisconnect exactly once, counting the   *)
(* call made by handleDisconnect and the one made by the 'disconnected'    *)
(* listener.                                                               *)
C26_LeaveCallsOnDisconnectOnce ==
  [][\A s \in Sessions :
       (/\ rRoom = s /\ sess[s] = "connected" /\ sess'[s] = "disconnected"
        /\ directOnDisconnectCalls' = directOnDisconnectCalls + 1)
       => (onDisconnectCalls'[s] - onDisconnectCalls[s])
            + (directOnDisconnectCalls' - directOnDisconnectCalls) = 1]_vars

(* C28: a disconnect() called on a connected session has closed the        *)
(* transport session when it returns, also when a track operation threw,   *)
(* and the hook never sets its room to null while the session it held is   *)
(* still connected.                                                        *)
C28_DisconnectAlwaysClosesSession ==
  [][\A s \in Sessions :
       /\ (/\ rRoom = s /\ sess[s] = "connected"
            /\ disconnectCalls'[s] = disconnectCalls[s] + 1)
           => sess'[s] = "disconnected"
       /\ (room = s /\ room' = NoRoom) => sess'[s] # "connected"]_vars

(* C29: once a drop of the session by the transport has been handled and   *)
(* onDisconnect was invoked for it, the hook starts no transport connect   *)
(* of its own: no render moves a session to pending.                       *)
C29_NoReconnectAfterDrop ==
  [][(\E s \in Sessions : /\ dropped[s] /\ sess[s] = "disconnected"
                          /\ onDisconnectCalls[s] > 0)
        => \A s \in Sessions : sess'[s] = "pending" => sess[s] = "pending"]_vars

(* ============================ visit claims ============================= *)

Established(s) == sess[s] \in {"connected", "disconnected"}

(* C22: startVisit is called only for an established session: once for     *)
(* each session a non-guest established, never for a guest, never while no *)
(* connect has succeeded and never for a connect that failed.              *)
C22_StartVisitOnlyOnSessionEstablished ==
  /\ startVisitCalls.early = 0
  /\ \A s \in Sessions :
        startVisitCalls.room[s] = IF Established(s) /\ ~isGuest THEN 1 ELSE 0

(* ===================== transcription toggle claims ===================== *)

(* C21: isTranscriptionEnabled becomes true only while the speech hook     *)
(* reports support and the session is connected; in a browser without      *)
(* speech recognition no request is in flight, isTranscriptionEnabled is   *)
(* false, no engine exists and isListening is false.                       *)
C21_EnabledOnlySupportedAndConnected ==
  [][/\ (~isTranscriptionEnabled /\ isTranscriptionEnabled') =>
          /\ rIsSupported
          /\ isConnected /\ room # NoRoom /\ sess[room] = "connected"
     /\ (spPhase' = "mounted" /\ ~browserSupports') =>
          /\ toggleReqs' = <<>> /\ ~isTranscriptionEnabled'
          /\ recognitionRef' = NoEngine /\ ~isListening'
          /\ \A e \in Engines : engState'[e] = "none"]_vars

(* ======================== TranscriptionPanel claims ==================== *)

(* C11: while the panel stays enabled, an utterance that is on screen is   *)
(* eventually off screen again: cleared by the hide timer, or replaced by  *)
(* an utterance with another identifier.                                   *)
C11_CaptionEventuallyCleared ==
  \A id \in UtterIds :
     (panelPhase = "mounted" /\ Shown(Panel) = id)
        ~> (~pEnabled \/ Shown(Panel) # id)

(* C12: an utterance that was on screen and was replaced there by an       *)
(* utterance with another identifier is never on screen again, in whatever *)
(* order the requests in flight resolve.                                   *)
C12_SupersededNeverShownAgain == Shown(Panel) \notin superseded

(* C13: no two successive display updates (setLatestTranscription with an  *)
(* utterance) carry the same transcription_id, unless the caption was      *)
(* cleared in between.                                                     *)
C13_NoRepeatedUpdate == ~repeatUpdate

(* ===================== VideoCall attach effect claims ================== *)

(* C16: a disabled panel shows no caption, has no poll interval and issues  *)
(* no poll request, also in the step in which a poll sent before the       *)
(* disable resolves; the step that disables it clears latestTranscription  *)
(* and cancels the hide timer.                                             *)
C16_DisabledPanelIsSilent ==
  [][(panelPhase' = "mounted" /\ ~pEnabled') =>
       /\ Shown(Panel)' = NoCaption
       /\ ~intervalOn' /\ ~pollIssued'
       /\ pEnabled => (latest' = NoCaption /\ ~hideTimer')]_vars

(* C16 witness: the panel is disabled and a poll sent while it was enabled *)
(* has just resolved with an utterance.                                    *)
C16_Witness ==
  /\ panelPhase = "mounted" /\ ~pEnabled
  /\ lateResolve /\ latest # NoCaption

(* C14: no remote track is attached a second time without a detach in      *)
(* between: every track has at most one attachment.                        *)
C14_NoDoubleAttach == \A tr \in RemoteTracks : attachCount[tr] <= 1

(* C30: for a remote participant that is rendered and stays in the call,   *)
(* after each trackSubscribed, trackUnsubscribed, trackEnabled or          *)
(* trackDisabled event the avatar overlay is hidden (hasVideoTrack) exactly *)
(* when the participant has a subscribed, enabled video track, also after   *)
(* the participants list changed and the attach effect was set up anew.     *)
C30_OverlayFollowsVideoTrack ==
  [][\A q \in Remotes :
       (/\ q \in parts /\ q \in rParts /\ q \in parts' /\ q \in rParts'
        /\ \/ videoOn'[q] # videoOn[q]
           \/ \E k \in TrackKinds : subscribed'[<<q, k>>] # subscribed[<<q, k>>])
       => hasVideoTrack'[q] = (subscribed'[<<q, "video">>] /\ videoOn'[q])]_vars

====
